---- MODULE Spec2Model ----
(***************************************************************************)
(* The runtime supervisor of snowcord (startWorkerRuntime): the registry   *)
(* of bot worker processes, the routing of gateway events, the respawn of  *)
(* crashed workers and the reload / restart / stop operations.             *)
(*                                                                         *)
(* The supervisor is one single-threaded Node.js process.  One action of   *)
(* this module is one macrotask of its event loop (an IPC message, an exit *)
(* event, a timer, a call of the control API, the completion of the        *)
(* background command sync) together with every promise continuation that  *)
(* the macrotask makes runnable, up to the next await that really          *)
(* suspends.  The child processes take their own steps (announce           *)
(* readiness, exit on the shutdown message, crash).                        *)
(***************************************************************************)
EXTENDS Integers, Sequences, FiniteSets, TLC

\* ------------------------------------------------------------------ bounds
\* The inputs of one run are the calls of the control API, the gateway
\* events the supervisor receives and the crashes of child processes, counted
\* together.
\* Spec: gateway events, restartWorker, restartShard, reloadLazy
MaxInputs == 2
\* SpecLife: every call of the control API and crashes of bot workers
MaxLifeInputs == 2
\* SpecRespawn: restartWorker, reload and crashes of bot workers
MaxRespawnInputs == 3
\* SpecInfo: getShardInfoFromGuild calls of the workers, restarts of workers
MaxCalls == 2
MaxInfoRestarts == 1
\* SpecClear: fullReload, stop and gateway events
MaxClearInputs == 2
\* SpecChildren: fullReload, stop, exits of the connection process and of the
\* request proxy
MaxChildInputs == 2
\* SpecPlan: the inputs of the even split: the first shard id is at most
\* MaxFirstShard, the range has at most MaxShards shards and there are at
\* most MaxWorkers workers
MaxFirstShard == 2
MaxShards == 6
MaxWorkers == 6
\* SpecQueue: gateway events, and calls of fullReload, stop and restartWorker
MaxQueueEvents == 2
MaxQueueCalls == 1
\* SpecCounts: getCounts calls, and next to them restartWorker, stop and
\* crashes of bot workers
MaxCountCalls == 1
MaxCountInputs == 2
\* SpecConfig: the shard ids of an explicit worker list are at most
\* MaxListShard (and at least -1), so is the cluster's last shard id; the
\* cluster's first shard id is at most MaxCfgFirst; botWorkers as a number is
\* at most MaxCfgWorkers
MaxListShard == 2
MaxCfgFirst == 1
MaxCfgWorkers == 2
\* SpecRest: the requests the request proxy answers
MaxRequests == 2
\* SpecAction: the control actions the front-end sends
MaxActions == 2
\* SpecReload: reloads, stop, crashes of workers and exits of the other children
MaxReloadInputs == 2
\* SpecRegistry: restarts, reloads and crashes of workers
MaxRegistryInputs == 2
\* SpecStop: stop, the calls before it and crashes of workers
MaxStopInputs == 2
\* SpecRecover: reloads and crashes of workers
MaxRecoverInputs == 2
\* SpecOwner: gateway events and crashes of workers
MaxOwnerEvents == 2
MaxOwnerCrashes == 1
MaxHotEvents == 2
MaxDevInputs == 3
\* REGISTRY_LIMIT is 10_000 in interactionRefs.ts; the registries are checked
\* with a small limit
REGISTRY_LIMIT == 2
MaxHotInfo == 1

\* ------------------------------------------------------- values of the code
\* `null` / `undefined`: no child process, no owner
NoChild == 0
NoWorker == "none"
\* a worker id that is in no plan (input of restartWorker)
UnknownWorker == "wX"
\* Number.MAX_SAFE_INTEGER, the sort key of a worker that owns no shard.
\* It only has to exceed every shard id; TLC's integers are 32 bits wide.
MAX_SAFE_INTEGER == 2147483647

\* runtime.cluster.firstShardId .. runtime.cluster.lastShardId
firstShardId == 0
lastShardId == 1
ClusterShards == firstShardId..lastShardId

\* runtime.cluster.botWorkers, as normalizeBotWorkers returns it: the even
\* split of 2 shards over 2 workers (botWorkers: 2), an explicit list given
\* in descending shard order, and an explicit list whose first worker owns
\* no shard.
EvenPlan == << [id |-> "w0", shards |-> <<0>>], [id |-> "w1", shards |-> <<1>>] >>
Plans ==
    { EvenPlan,
      << [id |-> "w0", shards |-> <<1>>], [id |-> "w1", shards |-> <<0>>] >>,
      << [id |-> "w0", shards |-> <<>>],  [id |-> "w1", shards |-> <<0, 1>>] >> }

\* an explicit list that leaves the last shard of the cluster to nobody
GapPlan == << [id |-> "w0", shards |-> <<0>>], [id |-> "w1", shards |-> <<>>] >>

\* ---------------------------------------------------------------- messages
\* { type: "runtime:shutdown" }
ShutdownMsg == [type |-> "shutdown", id |-> 0, shardId |-> 0, src |-> 0]
\* { type: "runtime:gateway:event", shardId, payload }: the payload is the
\* arrival number of the event, src the gateway process it came from
EventMsg(n, sh, g) == [type |-> "event", id |-> n, shardId |-> sh, src |-> g]
\* { type: "runtime:gateway:get-shard-info", nonce, guildId }: src is the
\* worker process that sent it
GetShardInfoMsg(n, p) == [type |-> "get-shard-info", id |-> n, shardId |-> 0, src |-> p]
\* { type: "runtime:gateway:shard-info-response", nonce, shardId, rtt }
ShardInfoResponse(n, g) ==
    [type |-> "shard-info-response", id |-> n, shardId |-> 0, src |-> g]

\* ------------------------------------------------------------------- state
VARIABLES
    plan,                        \* runtime.cluster.botWorkers
    shardOwner,                  \* Map<number, string>
    botChildren,                 \* Map<string, ChildProcess>: worker id -> pid
    expectedBotWorkerShutdowns,  \* Set<string>
    shardInfoRequests,           \* Map<string, ChildProcess>
    pendingEvents,               \* RouteEventMessage[]
    restChild,                   \* ChildProcess | null
    gatewayChild,                \* ChildProcess | null
    stopped,
    reloading,
    procs,                       \* every process forked so far, by pid
    timers,                      \* pending 250ms respawn timers (pid that exited)
    ops,                         \* control API calls: their position and awaits
    waitq,                       \* calls suspended in killChild, in order of suspension
    restartWin,                  \* history: the restart window of each worker
    evCount,                     \* events received so far
    stopPid,                     \* history: first pid forked after stop() was called
    calls,                       \* getShardInfoFromGuild calls of the workers, by nonce
    planner,                     \* the inputs and results of the partition planner
    http,                        \* the request-proxy: its secret and its requests
    cli,                         \* the operator front-end: its control actions
    dev,                         \* dev mode: the restart in progress and the queued one
    registry                     \* the executor registries of the interaction layer

vars == << plan, shardOwner, botChildren, expectedBotWorkerShutdowns,
           shardInfoRequests, pendingEvents, restChild, gatewayChild, stopped,
           reloading, procs, timers, ops, waitq, restartWin, evCount,
           stopPid, calls, planner, http, cli, dev, registry >>

\* ------------------------------------------------------------ plan helpers
PlanIdx == 1..Len(plan)
WorkerIds == { plan[k].id : k \in PlanIdx }
\* runtime.cluster.botWorkers.find((w) => w.id === workerId)
FindWorker(workerId) ==
    IF \E k \in PlanIdx : plan[k].id = workerId
    THEN CHOOSE k \in PlanIdx :
            /\ plan[k].id = workerId
            /\ \A j \in PlanIdx : plan[j].id = workerId => k <= j
    ELSE 0

SeqToSet(q) == { q[k] : k \in 1..Len(q) }

\* for (worker of botWorkers) for (shardId of worker.shards) shardOwner.set(..):
\* the last worker that lists a shard owns it
BuildShardOwner(p) ==
    [ sh \in ClusterShards |->
        IF \E k \in 1..Len(p) : sh \in SeqToSet(p[k].shards)
        THEN p[CHOOSE k \in 1..Len(p) :
                  /\ sh \in SeqToSet(p[k].shards)
                  /\ \A j \in 1..Len(p) : sh \in SeqToSet(p[j].shards) => j <= k].id
        ELSE NoWorker ]

\* a.shards[0] ?? Number.MAX_SAFE_INTEGER
StartOf(w) == IF Len(w.shards) > 0 THEN w.shards[1] ELSE MAX_SAFE_INTEGER

\* Array.prototype.sort with the comparator aStart - bStart (a stable sort):
\* insertion of each worker after the last one whose key is not greater
RECURSIVE InsertByStart(_, _)
InsertByStart(sorted, w) ==
    IF sorted = << >> THEN << w >>
    ELSE IF StartOf(Head(sorted)) - StartOf(w) <= 0
         THEN << Head(sorted) >> \o InsertByStart(Tail(sorted), w)
         ELSE << w >> \o sorted

RECURSIVE SortByStart(_)
SortByStart(ws) ==
    IF ws = << >> THEN << >>
    ELSE InsertByStart(SortByStart(SubSeq(ws, 1, Len(ws) - 1)), ws[Len(ws)])

\* the workers in the plan's own order, without the sort
UnsortedWorkers == plan
\* workersInOrder of reloadLazy
WorkersInOrder == SortByStart(plan)


\* ------------------------------------------------------------- the planner
\* `bot-${index}`
BotId(index) == "bot-" \o ToString(index)

\* the loop of normalizeBotWorkers over index, from `index` on, with `cursor`
RECURSIVE GenerateWorkers(_, _, _, _, _)
GenerateWorkers(index, cursor, workerCount, baseSize, remainder) ==
    IF index >= workerCount THEN << >>
    ELSE LET shardCountForWorker == baseSize + (IF index < remainder THEN 1 ELSE 0)
             shards == [offset \in 1..shardCountForWorker |-> cursor + (offset - 1)]
         IN  << [id |-> BotId(index), shards |-> shards] >>
                \o GenerateWorkers(index + 1, cursor + shardCountForWorker,
                                   workerCount, baseSize, remainder)

\* an even split that forgets the remainder
normalizeBotWorkers_noRemainder(workers, first, last) ==
    GenerateWorkers(0, first, workers, (last - first + 1) \div workers, 0)

\* a split that deals the shards out in turn: worker k gets the shards
\* first + k, first + k + workers, ...
normalizeBotWorkers_roundRobin(workers, first, last) ==
    [ k \in 1..workers |->
        [ id |-> BotId(k - 1),
          shards |->
            [ j \in 1..Cardinality({ sh \in first..last :
                                        (sh - first) % workers = k - 1 }) |->
                first + (k - 1) + (j - 1) * workers ] ] ]

\* normalizeBotWorkers(workers, firstShardId, lastShardId, clusterCount) for
\* a positive integer `workers`
normalizeBotWorkers(workers, first, last) ==
    LET totalShardCount == last - first + 1
        baseSize == totalShardCount \div workers
        remainder == totalShardCount % workers
    IN  GenerateWorkers(0, first, workers, baseSize, remainder)

\* a thrown configuration error: no plan is returned
ConfigError == [err |-> TRUE, botWorkers |-> << >>]
Planned(ws) == [err |-> FALSE, botWorkers |-> ws]

\* [...new Set(input)]: the first occurrence of each value, in input order
RECURSIVE Dedupe(_)
Dedupe(q) ==
    IF q = << >> THEN << >>
    ELSE LET r == Dedupe(SubSeq(q, 1, Len(q) - 1))
         IN  IF q[Len(q)] \in SeqToSet(r) THEN r ELSE Append(r, q[Len(q)])

\* .sort((a, b) => a - b)
RECURSIVE InsertNumber(_, _)
InsertNumber(sorted, a) ==
    IF sorted = << >> THEN << a >>
    ELSE IF Head(sorted) - a <= 0
         THEN << Head(sorted) >> \o InsertNumber(Tail(sorted), a)
         ELSE << a >> \o sorted

RECURSIVE SortNumbers(_)
SortNumbers(q) ==
    IF q = << >> THEN << >>
    ELSE InsertNumber(SortNumbers(SubSeq(q, 1, Len(q) - 1)), q[Len(q)])

\* an expandShardRange that expands a reversed range to the empty list
expandShardRange_noRangeCheck(input) ==
    IF input.array
    THEN IF \E k \in 1..Len(input.items) : input.items[k] < 0
         THEN [err |-> TRUE, shards |-> << >>]
         ELSE [err |-> FALSE, shards |-> SortNumbers(Dedupe(input.items))]
    ELSE [err |-> FALSE,
          shards |-> [k \in 1..(input.end - input.start + 1) |->
                            input.start + (k - 1)]]

\* expandShardRange: an array is checked for negative values, deduplicated
\* and sorted; a range { start, end } is checked for end < start only and
\* expanded.  The result is the shard list, or err when it throws.
expandShardRange(input) ==
    IF input.array
    THEN IF \E k \in 1..Len(input.items) : input.items[k] < 0
         THEN [err |-> TRUE, shards |-> << >>]
         ELSE [err |-> FALSE, shards |-> SortNumbers(Dedupe(input.items))]
    ELSE IF input.end < input.start
         THEN [err |-> TRUE, shards |-> << >>]
         ELSE [err |-> FALSE,
               shards |-> [k \in 1..(input.end - input.start + 1) |->
                                input.start + (k - 1)]]

\* workers.map((worker) => ({ id: worker.id, shards: expandShardRange(..) })):
\* one throwing worker makes the whole call throw
ExplicitWorkers(list) ==
    IF \E k \in 1..Len(list) : expandShardRange(list[k].shards).err
    THEN ConfigError
    ELSE Planned([k \in 1..Len(list) |->
            [id |-> list[k].id, shards |-> expandShardRange(list[k].shards).shards]])

\* workers === "auto": one worker `shard${shardId}` per shard
AutoWorkers(first, last, clusterCount) ==
    IF clusterCount # 1 THEN ConfigError
    ELSE Planned([k \in 1..(last - first + 1) |->
            [id |-> "shard" \o ToString(first + (k - 1)),
             shards |-> << first + (k - 1) >>]])

\* no worker specification (or an empty list): the single worker bot-0
DefaultWorker(first, last) ==
    Planned(<< [id |-> BotId(0),
                shards |-> [k \in 1..(last - first + 1) |-> first + (k - 1)]] >>)

\* normalizeBotWorkers(workers, firstShardId, lastShardId, clusterCount),
\* every branch; cfg.mode tells what `workers` is
normalizeBotWorkersOf(cfg, clusterCount) ==
    CASE cfg.mode = "auto" ->
            AutoWorkers(cfg.firstShardId, cfg.lastShardId, clusterCount)
      [] cfg.mode = "number" ->
            IF cfg.workers <= 0 THEN ConfigError
            ELSE Planned(normalizeBotWorkers(cfg.workers, cfg.firstShardId,
                                             cfg.lastShardId))
      [] cfg.mode = "list" /\ Len(cfg.list) > 0 -> ExplicitWorkers(cfg.list)
      [] OTHER -> DefaultWorker(cfg.firstShardId, cfg.lastShardId)

\* clusterList?.length ?? 1
ClusterCount(cfg) == IF cfg.clustersSet THEN cfg.clusters ELSE 1

\* normalizeCluster, from the resolved shard range of the selected cluster on
normalizeCluster(cfg) ==
    IF cfg.lastShardId < cfg.firstShardId THEN ConfigError
    ELSE normalizeBotWorkersOf(cfg, ClusterCount(cfg))

\* ------------------------------------------------- the supervisor's state
\* The closure state of startWorkerRuntime as one record, so that a handler
\* and the continuations it triggers compose as functions.
Cur ==
    [ botChildren |-> botChildren,
      expectedBotWorkerShutdowns |-> expectedBotWorkerShutdowns,
      shardInfoRequests |-> shardInfoRequests,
      pendingEvents |-> pendingEvents,
      restChild |-> restChild,
      gatewayChild |-> gatewayChild,
      stopped |-> stopped,
      reloading |-> reloading,
      procs |-> procs,
      timers |-> timers,
      ops |-> ops,
      waitq |-> waitq,
      restartWin |-> restartWin,
      calls |-> calls ]

Apply(s) ==
    /\ botChildren' = s.botChildren
    /\ expectedBotWorkerShutdowns' = s.expectedBotWorkerShutdowns
    /\ shardInfoRequests' = s.shardInfoRequests
    /\ pendingEvents' = s.pendingEvents
    /\ restChild' = s.restChild
    /\ gatewayChild' = s.gatewayChild
    /\ stopped' = s.stopped
    /\ reloading' = s.reloading
    /\ procs' = s.procs
    /\ timers' = s.timers
    /\ ops' = s.ops
    /\ waitq' = s.waitq
    /\ restartWin' = s.restartWin
    /\ calls' = s.calls

\* ---------------------------------------------------------------- processes
\* A forked child.  st: "alive" until its exit event is dispatched (the
\* supervisor cannot tell a running child from one whose exit it has not
\* seen yet), then "gone" (exitCode set).  ann: "seen" once the supervisor
\* has received its readiness announcement, "no" before.
\* inbox: what the supervisor sent to it, in order.  History fields: by (who
\* forked it), crashed, dec (what its exit handler decided), idle (the
\* supervisor was neither stopped nor reloading when it exited), tmr (what
\* its respawn timer did).  Once a child is gone its inbox is dropped.
\* sig: the child was ended by a signal that the supervisor did not send, so
\* that its exitCode stays null (signalCode is set) and child.killed is false.
\* cfg: for a worker process, the position in the plan of the `worker` it was
\* forked with (env.worker).
NewProc(role, wid, by) ==
    [ role |-> role, wid |-> wid, st |-> "alive", ann |-> "no",
      killed |-> FALSE, crashed |-> FALSE, by |-> by, inbox |-> << >>,
      dec |-> "none", idle |-> FALSE, tmr |-> "none", sig |-> FALSE,
      cfg |-> 0 ]

\* child.send(message)
SendTo(s, p, m) == [s EXCEPT !.procs[p].inbox = Append(@, m)]

SendToAll(s, ps, m) ==
    [s EXCEPT !.procs = [ p \in DOMAIN s.procs |->
        IF p \in ps THEN [s.procs[p] EXCEPT !.inbox = Append(@, m)]
        ELSE s.procs[p] ]]

\* [...botChildren.values()]
ChildrenOf(s) == { s.botChildren[w] : w \in DOMAIN s.botChildren } \ {NoChild}

\* a clear that also empties the pending event queue
ClearChildren_dropsQueue(s) ==
    [s EXCEPT !.botChildren = [w \in DOMAIN s.botChildren |-> NoChild],
              !.pendingEvents = << >>]

\* botChildren.clear()
ClearChildren(s) ==
    [s EXCEPT !.botChildren = [w \in DOMAIN s.botChildren |-> NoChild]]

\* spawnBotWorker: fork, attach the handlers, botChildren.set(worker.id, child);
\* the worker is the one found by its id
spawnBotWorker(s, w, by) ==
    [s EXCEPT !.procs = Append(@, [NewProc("bot", w, by) EXCEPT !.cfg = FindWorker(w)]),
              !.botChildren[w] = Len(s.procs) + 1]

\* spawnBotWorker(worker) with the k-th worker of the plan
spawnBotWorkerAt(s, k, by) ==
    LET s1 == spawnBotWorker(s, plan[k].id, by)
    IN  [s1 EXCEPT !.procs[Len(s1.procs)].cfg = k]

spawnRestWorker(s, by) ==
    [s EXCEPT !.procs = Append(@, NewProc("rest", NoWorker, by)),
              !.restChild = Len(s.procs) + 1]

spawnGatewayWorker(s, by) ==
    [s EXCEPT !.procs = Append(@, NewProc("gateway", NoWorker, by)),
              !.gatewayChild = Len(s.procs) + 1]

\* for (const worker of runtime.cluster.botWorkers) spawnBotWorker(worker)
RECURSIVE SpawnAll(_, _, _)
SpawnAll(s, k, by) ==
    IF k > Len(plan) THEN s
    ELSE SpawnAll(spawnBotWorkerAt(s, k, by), k + 1, by)

\* killChild: resolves at once when !child || child.killed ||
\* child.exitCode !== null.  A child that is gone has its exitCode set, or
\* was ended by the supervisor's SIGKILL (child.killed), unless a signal from
\* elsewhere ended it (sig).
KillChildWaits(s, p) ==
    /\ p # NoChild
    /\ s.procs[p].st # "gone" \/ s.procs[p].sig
    /\ ~s.procs[p].killed

\* killChild otherwise arms the 5s SIGKILL timer, listens for the exit and
\* sends the shutdown message
killChild(s, p) == IF KillChildWaits(s, p) THEN SendTo(s, p, ShutdownMsg) ELSE s

KillAll(s, ps) == SendToAll(s, { p \in ps : KillChildWaits(s, p) }, ShutdownMsg)


\* ------------------------------------------------------- control API calls
\* One record per call of the control API.  pc is the await the call is
\* suspended at, wait the children whose exit it awaits (killChild).
\* History fields: acted (it sent a shutdown message or forked a process),
\* afterStop (stop() had been called before it), shut (the workers it sent
\* the shutdown message to, in order), readyStart (every worker had a
\* live, ready process when it was called).
\* worker w is ready: its registered process is running, has announced
\* readiness and has not been sent the shutdown message
Ready(s, w) ==
    /\ s.botChildren[w] # NoChild
    /\ s.procs[s.botChildren[w]].st = "alive"
    /\ s.procs[s.botChildren[w]].ann = "seen"
    /\ \A k \in 1..Len(s.procs[s.botChildren[w]].inbox) :
            s.procs[s.botChildren[w]].inbox[k] # ShutdownMsg

NewOp(s, kind, wid) ==
    [ kind |-> kind, pc |-> "start", wait |-> {}, wid |-> wid, idx |-> 1,
      sync |-> FALSE, acted |-> FALSE, afterStop |-> s.stopped,
      shut |-> << >>,
      readyStart |-> \A w \in DOMAIN s.botChildren : Ready(s, w),
      ret |-> << >> ]

Suspend(s, i, pc, ws) ==
    [s EXCEPT !.ops[i].pc = pc, !.ops[i].wait = ws, !.waitq = Append(@, i)]
Goto(s, i, pc) == [s EXCEPT !.ops[i].pc = pc]
\* a call that has returned keeps its history fields only
Finish(s, i) ==
    [s EXCEPT !.ops[i].pc = "done", !.ops[i].wait = {}, !.ops[i].idx = 1,
              !.ops[i].sync = FALSE]
Acted(s, i) == [s EXCEPT !.ops[i].acted = TRUE]

\* a restart that sends the shutdown message to every registered child
RestartBegin_stopsAll(s, w) ==
    LET s1 == [s EXCEPT !.expectedBotWorkerShutdowns = @ \cup {w},
                        !.restartWin[w] =
                            [phase |-> "stopping", pid |-> NoChild, evs |-> << >>,
                             ready0 |-> Ready(s, w)]]
    IN  SendToAll(s1, ChildrenOf(s), ShutdownMsg)

\* restartBotWorkerById, from the lookup of the child to the await of
\* killChild: the worker is flagged, the child (if any) is sent the shutdown
\* message, killChild sends it once more
RestartBegin(s, w) ==
    LET child == s.botChildren[w]
        s1 == [s EXCEPT !.expectedBotWorkerShutdowns = @ \cup {w},
                        !.restartWin[w] =
                            [phase |-> "stopping", pid |-> NoChild, evs |-> << >>,
                             ready0 |-> Ready(s, w)]]
    IN  IF child # NoChild
        THEN killChild(SendTo(s1, child, ShutdownMsg), child)
        ELSE s1

\* a respawn that forks a connection process as well
RestartEnd_respawnsGateway(s, w, by, hadChild) ==
    LET s1 == IF hadChild THEN [s EXCEPT !.botChildren[w] = NoChild] ELSE s
        s2 == spawnBotWorker(s1, w, by)
    IN  spawnGatewayWorker(
            [s2 EXCEPT !.restartWin[w] =
                [phase |-> "respawned", pid |-> Len(s2.procs),
                 evs |-> s.restartWin[w].evs, ready0 |-> s.restartWin[w].ready0]],
            by)

\* restartBotWorkerById after the await: botChildren.delete(workerId) when
\* there was a child, then spawnBotWorker(worker)
RestartEnd(s, w, by, hadChild) ==
    LET s1 == IF hadChild THEN [s EXCEPT !.botChildren[w] = NoChild] ELSE s
        s2 == spawnBotWorker(s1, w, by)
    IN  [s2 EXCEPT !.restartWin[w] =
            [phase |-> "respawned", pid |-> Len(s2.procs),
             evs |-> s.restartWin[w].evs, ready0 |-> s.restartWin[w].ready0]]

\* reload / fullReload: flag every worker of the plan, send the shutdown
\* message to every registered child, killChild each of them
ShutdownAllWorkers(s, i) ==
    LET prev == ChildrenOf(s)
        s1 == [s EXCEPT !.expectedBotWorkerShutdowns = @ \cup WorkerIds]
        s2 == KillAll(SendToAll(s1, prev, ShutdownMsg), prev)
    IN  IF prev # {} THEN Acted(s2, i) ELSE s2

\* Resume(s, i): call i runs from its position up to its next await that
\* suspends (an await of a settled promise only yields to other microtasks).
RECURSIVE Resume(_, _)
Resume(s, i) ==
    LET o == s.ops[i]
        lw == IF o.idx <= Len(WorkersInOrder) THEN WorkersInOrder[o.idx].id ELSE NoWorker
    IN
    CASE o.kind = "restart" /\ o.pc = "start" ->
            LET child == s.botChildren[o.wid]
                s1 == RestartBegin(s, o.wid)
            IN  IF KillChildWaits(s, child)
                THEN Suspend(Acted(s1, i), i, "kill", {child})
                ELSE IF child # NoChild
                     THEN Resume(Goto(Acted(s1, i), i, "kill"), i)
                     ELSE Resume(Goto(s1, i, "spawn"), i)
      [] o.kind = "restart" /\ o.pc = "kill" ->
            Finish(Acted(RestartEnd(s, o.wid, "restart", TRUE), i), i)
      [] o.kind = "restart" /\ o.pc = "spawn" ->
            Finish(Acted(RestartEnd(s, o.wid, "restart", FALSE), i), i)
      \* ---- reload
      [] o.kind = "reload" /\ o.pc = "start" ->
            LET s1 == ShutdownAllWorkers([s EXCEPT !.reloading = TRUE], i)
                ws == { p \in ChildrenOf(s) : KillChildWaits(s, p) }
            IN  IF ws # {} THEN Suspend(s1, i, "kill", ws)
                ELSE Resume(Goto(s1, i, "kill"), i)
      [] o.kind = "reload" /\ o.pc = "kill" ->
            LET s1 == Acted(SpawnAll(ClearChildren(s), 1, "reload"), i)
            IN  IF o.sync THEN Finish([s1 EXCEPT !.reloading = FALSE], i)
                ELSE Goto(s1, i, "sync")
      [] o.kind = "reload" /\ o.pc = "sync" ->
            Finish([s EXCEPT !.reloading = FALSE], i)
      \* ---- reloadLazy
      [] o.kind = "lazy" /\ o.pc = "start" ->
            Goto([s EXCEPT !.reloading = TRUE], i, "sync")
      [] o.kind = "lazy" /\ o.pc = "loop" ->
            IF o.idx > Len(WorkersInOrder)
            THEN Finish([s EXCEPT !.reloading = FALSE], i)
            ELSE LET child == s.botChildren[lw]
                     s1 == RestartBegin(s, lw)
                     s2 == IF child # NoChild
                           THEN [Acted(s1, i) EXCEPT !.ops[i].shut = Append(@, lw)]
                           ELSE s1
                 IN  IF KillChildWaits(s, child)
                     THEN Suspend(s2, i, "kill", {child})
                     ELSE IF child # NoChild
                          THEN Resume(Goto(s2, i, "kill"), i)
                          ELSE Resume(Goto(s2, i, "spawn"), i)
      [] o.kind = "lazy" /\ o.pc \in {"kill", "spawn"} ->
            Resume([Acted(RestartEnd(s, lw, "lazy", o.pc = "kill"), i)
                        EXCEPT !.ops[i].idx = @ + 1, !.ops[i].pc = "loop"], i)
      \* ---- fullReload
      [] o.kind = "full" /\ o.pc = "start" ->
            Goto([s EXCEPT !.reloading = TRUE], i, "sync")
      [] o.kind = "full" /\ o.pc = "synced" ->
            LET s1 == ShutdownAllWorkers(s, i)
                ws == { p \in ChildrenOf(s) : KillChildWaits(s, p) }
            IN  IF ws # {} THEN Suspend(s1, i, "kill", ws)
                ELSE Resume(Goto(s1, i, "kill"), i)
      [] o.kind = "full" /\ o.pc = "kill" ->
            LET s1 == [ClearChildren(s) EXCEPT !.pendingEvents = << >>,
                                               !.shardInfoRequests = {}]
                g == s1.gatewayChild
            IN  IF KillChildWaits(s1, g)
                THEN Suspend(Acted(killChild(s1, g), i), i, "killgw", {g})
                ELSE Resume(Goto(s1, i, "killgw"), i)
      [] o.kind = "full" /\ o.pc = "killgw" ->
            LET s1 == [s EXCEPT !.gatewayChild = NoChild]
                r == s1.restChild
            IN  IF KillChildWaits(s1, r)
                THEN Suspend(Acted(killChild(s1, r), i), i, "killrest", {r})
                ELSE Resume(Goto(s1, i, "killrest"), i)
      [] o.kind = "full" /\ o.pc = "killrest" ->
            LET s1 == spawnRestWorker([s EXCEPT !.restChild = NoChild], "full")
                s2 == spawnGatewayWorker(SpawnAll(s1, 1, "full"), "full")
            IN  Finish(Acted([s2 EXCEPT !.reloading = FALSE], i), i)
      \* ---- stop
      [] o.kind = "stop" /\ o.pc = "start" ->
            LET s1 == [s EXCEPT !.stopped = TRUE]
                prev == ChildrenOf(s)
                ws == { p \in prev : KillChildWaits(s, p) }
                s2 == KillAll(s1, prev)
            IN  IF ws # {} THEN Suspend(Acted(s2, i), i, "kill", ws)
                ELSE Resume(Goto(s2, i, "kill"), i)
      [] o.kind = "stop" /\ o.pc = "kill" ->
            LET s1 == ClearChildren(s)
                g == s1.gatewayChild
            IN  IF KillChildWaits(s1, g)
                THEN Suspend(Acted(killChild(s1, g), i), i, "killgw", {g})
                ELSE Resume(Goto(s1, i, "killgw"), i)
      [] o.kind = "stop" /\ o.pc = "killgw" ->
            LET r == s.restChild
            IN  IF KillChildWaits(s, r)
                THEN Suspend(Acted(killChild(s, r), i), i, "killrest", {r})
                ELSE Resume(Goto(s, i, "killrest"), i)
      [] o.kind = "stop" /\ o.pc = "killrest" ->
            Finish(s, i)


\* --------------------------------------------------------- message handlers
\* a flush that hands the whole queue to the worker
flushPendingEventsForWorker_all(s, workerId) ==
    LET worker == s.botChildren[workerId]
    IN  IF worker = NoChild THEN s
        ELSE [s EXCEPT !.procs[worker].inbox = @ \o s.pendingEvents,
                       !.pendingEvents = << >>]

\* a flush that forgets the events it does not send
flushPendingEventsForWorker_dropsRest(s, workerId) ==
    LET worker == s.botChildren[workerId]
        mine(e) == shardOwner[e.shardId] = workerId
    IN  IF worker = NoChild THEN s
        ELSE [s EXCEPT !.procs[worker].inbox = @ \o SelectSeq(s.pendingEvents, mine),
                       !.pendingEvents = << >>]

\* flushPendingEventsForWorker
flushPendingEventsForWorker(s, workerId) ==
    LET worker == s.botChildren[workerId]
        mine(e) == shardOwner[e.shardId] = workerId
        keep(e) == ~mine(e)
    IN  IF worker = NoChild THEN s
        ELSE [s EXCEPT !.procs[worker].inbox = @ \o SelectSeq(s.pendingEvents, mine),
                       !.pendingEvents = SelectSeq(s.pendingEvents, keep)]

\* gatewayChild.on("message"), type "runtime:gateway:event"
RouteEvent(s, ev) ==
    LET workerId == shardOwner[ev.shardId]
        worker == IF workerId # NoWorker THEN s.botChildren[workerId] ELSE NoChild
        s1 == IF workerId # NoWorker /\ s.restartWin[workerId].phase \in {"stopping", "respawned"}
              THEN [s EXCEPT !.restartWin[workerId].evs = Append(@, ev.id)]
              ELSE s
    IN  IF worker = NoChild
        THEN [s1 EXCEPT !.pendingEvents = Append(@, ev)]
        ELSE SendTo(s1, worker, ev)

\* child.on("message"), type "runtime:bot:ready", sent by process p
OnBotReady(s, p) ==
    LET w == s.procs[p].wid
        s1 == [s EXCEPT !.procs[p].ann = "seen"]
        s2 == flushPendingEventsForWorker(s1, w)
    IN  IF s.restartWin[w].phase = "respawned" /\ s.restartWin[w].pid = p
        THEN [s2 EXCEPT !.restartWin[w].phase = "closed"]
        ELSE s2

\* shardInfoRequests, a Map<nonce, ChildProcess>, as a set of <<nonce, pid>>
MapGet(m, n) ==
    IF \E e \in m : e[1] = n THEN (CHOOSE e \in m : e[1] = n)[2] ELSE NoChild
MapSet(m, n, p) == { e \in m : e[1] # n } \cup { <<n, p>> }
MapDelete(m, n) == { e \in m : e[1] # n }

\* child.send to a child whose process has exited delivers nothing
Deliver(s, p, m) ==
    IF p = NoChild \/ s.procs[p].st = "gone" THEN s ELSE SendTo(s, p, m)

\* child.on("message"), type "runtime:gateway:get-shard-info", sent by p:
\* shardInfoRequests.set(nonce, child); gatewayChild?.send(incoming)
OnGetShardInfo(s, p, n) ==
    Deliver([s EXCEPT !.shardInfoRequests = MapSet(@, n, p)],
            s.gatewayChild, GetShardInfoMsg(n, p))

\* onMessage of getShardInfoFromGuild in worker process p: the response
\* resolves the call of that nonce while its listener is attached
WorkerGetsResponse(s, p, msg) ==
    IF /\ p # NoChild
       /\ s.procs[p].st = "alive"
       /\ msg.id \in DOMAIN s.calls
       /\ s.calls[msg.id].by = p
       /\ s.calls[msg.id].st = "waiting"
    THEN [s EXCEPT !.calls[msg.id].st = "resolved"]
    ELSE s

\* a response handler that keeps the entry of the nonce
OnShardInfoResponse_keepsEntry(s, msg) ==
    LET requester == MapGet(s.shardInfoRequests, msg.id)
        s1 == [s EXCEPT !.calls[msg.id].ans = @ + 1]
    IN  IF requester = NoChild THEN s1
        ELSE WorkerGetsResponse(
                Deliver([s1 EXCEPT !.calls[msg.id].fwd = @ + 1], requester, msg),
                requester, msg)
\* gatewayChild.on("message"), type "runtime:gateway:shard-info-response":
\* requester = shardInfoRequests.get(nonce); delete(nonce); requester?.send.
\* History: ans counts the responses received for the nonce, fwd the
\* responses forwarded to a requester.
OnShardInfoResponse(s, msg) ==
    LET requester == MapGet(s.shardInfoRequests, msg.id)
        s1 == [s EXCEPT !.shardInfoRequests = MapDelete(@, msg.id),
                        !.calls[msg.id].ans = @ + 1]
    IN  IF requester = NoChild THEN s1
        ELSE WorkerGetsResponse(
                Deliver([s1 EXCEPT !.calls[msg.id].fwd = @ + 1], requester, msg),
                requester, msg)

\* the decision of the exit handler of a bot worker
BotExitDecision(s, w) ==
    IF s.stopped THEN "quiet"
    ELSE IF w \in s.expectedBotWorkerShutdowns THEN "expected"
    ELSE IF s.reloading THEN "logged"
    ELSE "timer"

\* child.on("exit") of spawnBotWorker
OnBotExit(s, p) ==
    LET w == s.procs[p].wid
        d == BotExitDecision(s, w)
    IN  [s EXCEPT !.botChildren[w] = NoChild,
                  !.expectedBotWorkerShutdowns = @ \ {w},
                  !.procs[p].st = "gone",
                  !.procs[p].dec = d,
                  !.procs[p].idle = ~s.stopped /\ ~s.reloading,
                  !.procs[p].tmr = IF d = "timer" THEN "armed" ELSE "none",
                  !.timers = IF d = "timer" THEN @ \cup {p} ELSE @]

\* gatewayChild.on("exit")
OnGatewayExit(s, p) ==
    [s EXCEPT !.procs[p].st = "gone",
              !.procs[p].idle = ~s.stopped /\ ~s.reloading,
              !.procs[p].dec = IF s.stopped THEN "quiet" ELSE "logged"]

\* the request proxy has no exit handler
OnRestExit(s, p) ==
    [s EXCEPT !.procs[p].st = "gone",
              !.procs[p].idle = ~s.stopped /\ ~s.reloading,
              !.procs[p].dec = "quiet"]

ExitHandler(s, p) ==
    CASE s.procs[p].role = "bot" -> OnBotExit(s, p)
      [] s.procs[p].role = "gateway" -> OnGatewayExit(s, p)
      [] s.procs[p].role = "rest" -> OnRestExit(s, p)

\* the exit event of p: its handler runs; what the gone child had been sent
\* is of no further use
OnExit(s, p) ==
    [ExitHandler(s, p) EXCEPT !.procs[p].inbox = << >>,
                              !.procs[p].ann = "no",
                              !.procs[p].killed = FALSE]

RemoveFrom(q, i) == SelectSeq(q, LAMBDA j : j # i)

\* the exit listeners of killChild (child.once("exit")) resolve the awaits on
\* p in the order in which they were registered
RECURSIVE Wake(_, _, _)
Wake(s, p, q) ==
    IF q = << >> THEN s
    ELSE LET i == Head(q) IN
         IF p \in s.ops[i].wait
         THEN LET s1 == [s EXCEPT !.ops[i].wait = @ \ {p}] IN
              IF s1.ops[i].wait = {}
              THEN Wake(Resume([s1 EXCEPT !.waitq = RemoveFrom(@, i)], i), p, Tail(q))
              ELSE Wake(s1, p, Tail(q))
         ELSE Wake(s, p, Tail(q))

\* a respawn timer that does not look at `stopped`
OnRespawnTimer_ignoresStop(s, p) ==
    LET w == s.procs[p].wid
        s1 == [s EXCEPT !.timers = @ \ {p}]
    IN  IF s.botChildren[w] # NoChild THEN [s1 EXCEPT !.procs[p].tmr = "exists"]
        ELSE spawnBotWorkerAt([s1 EXCEPT !.procs[p].tmr = "spawned"], s.procs[p].cfg, "timer")
\* the 250ms timer of the exit handler of process p
OnRespawnTimer(s, p) ==
    LET w == s.procs[p].wid
        s1 == [s EXCEPT !.timers = @ \ {p}]
    IN  IF s.stopped THEN [s1 EXCEPT !.procs[p].tmr = "stopped"]
        ELSE IF s.botChildren[w] # NoChild THEN [s1 EXCEPT !.procs[p].tmr = "exists"]
        ELSE spawnBotWorkerAt([s1 EXCEPT !.procs[p].tmr = "spawned"], s.procs[p].cfg, "timer")

\* ------------------------------------------------------- the request proxy
\* crypto.randomUUID() of buildRuntimeConfig: the secrets a run may draw
Secrets == {"s1", "s2"}

\* request.headers.authorization: undefined, or the string the client sent
NoHeader == [present |-> FALSE, value |-> ""]
Header(v) == [present |-> TRUE, value |-> v]
Headers == {NoHeader} \cup { Header(v) : v \in Secrets \cup {"", "S1", "Bearer s1"} }

\* request.url as its characters; the empty one stands for a missing URL
TimecheckUrl == << "/", "t", "i", "m", "e", "c", "h", "e", "c", "k" >>
Urls ==
    { << >>, TimecheckUrl, << "/", "c" >>, << "/", "v", "1" >>,
      << "/", "v", "1", "/", "c" >> }
Methods == {"GET", "POST"}

\* what readBody and rest.makeRequest do with a request
Bodies == {"none", "json", "error"}
ApiResults == {"data", "empty", "throws"}

\* url.indexOf("/", from - 1), as a position counted from 1; 0 when absent
IndexOfSlash(url, from) ==
    IF \E k \in from..Len(url) : url[k] = "/"
    THEN CHOOSE k \in from..Len(url) :
            /\ url[k] = "/"
            /\ \A j \in from..(k - 1) : url[j] # "/"
    ELSE 0

normalizeDiscordPath(url) ==
    IF Len(url) >= 2 /\ url[1] = "/" /\ url[2] = "v"
    THEN LET slashIndex == IndexOfSlash(url, 3) IN
         IF slashIndex = 0 THEN << "/" >> ELSE SubSeq(url, slashIndex, Len(url))
    ELSE url

\* a handler that only asks for some credential
Unauthorized_anyCredential(secret, auth) == ~auth.present

\* auth !== env.config.authorization
Unauthorized(secret, auth) == ~(auth.present /\ auth.value = secret)

Response(req, status, called, path) ==
    [auth |-> req.auth, method |-> req.method, url |-> req.url,
     status |-> status, called |-> called, path |-> path]

\* the handler of createServer: the answer to one request, and whether and
\* with which path rest.makeRequest was executed for it
HandleRequest(secret, req, body, api) ==
    IF Unauthorized(secret, req.auth) THEN Response(req, 401, FALSE, << >>)
    ELSE IF req.url = << >> THEN Response(req, 400, FALSE, << >>)
    ELSE IF req.method = "GET" /\ req.url = TimecheckUrl
    THEN Response(req, 200, FALSE, << >>)
    ELSE LET path == normalizeDiscordPath(req.url) IN
         IF req.method # "GET" /\ req.method # "DELETE" /\ body = "error"
         THEN Response(req, 500, FALSE, << >>)
         ELSE IF api = "throws" THEN Response(req, 500, TRUE, path)
         ELSE IF api = "data" THEN Response(req, 200, TRUE, path)
         ELSE Response(req, 204, TRUE, path)

\* the proxy before the supervisor has drawn its secret
NoHttp == [authorization |-> "", handled |-> 0, apiCalls |-> 0, last |-> << >>]

\* ---------------------------------------------------- the operator front-end
\* the types of RuntimeActionMessage
ActionTypes == {"snowcord:reload", "snowcord:count"}

\* the messages the runtime process sends to the front-end
OkReply(r) == [type |-> "snowcord:action:ok", requestId |-> r]
ErrorReply(r) == [type |-> "snowcord:action:error", requestId |-> r]
CountReply(r) == [type |-> "snowcord:count:result", requestId |-> r]
\* it carries no request id
Reloaded == [type |-> "snowcord:reloaded", requestId |-> 0]

\* withAction of the runtime's entry point: the messages it sends for the
\* action with request id r, in order
withAction(r, type, throws) ==
    IF throws THEN << ErrorReply(r) >>
    ELSE IF type = "snowcord:reload" THEN << Reloaded, OkReply(r) >>
    ELSE IF type = "snowcord:count" THEN << CountReply(r), OkReply(r) >>
    ELSE << OkReply(r) >>

\* one promise of requestRuntimeAction
NewRequest(type) ==
    [type |-> type, state |-> "pending", listening |-> TRUE, timeout |-> TRUE,
     late |-> 0]

\* cleanup, then resolve or reject
Settle(q, state) == [q EXCEPT !.state = state, !.listening = FALSE, !.timeout = FALSE]

\* a listener that does not compare the request id
onMessage_anyId(q, r, m) ==
    IF ~q.listening THEN [q EXCEPT !.late = @ + (IF m.requestId = r THEN 1 ELSE 0)]
    ELSE IF m.type \in {"snowcord:count:result", "snowcord:action:ok"}
    THEN Settle(q, "success")
    ELSE IF m.type = "snowcord:action:error" THEN Settle(q, "error")
    ELSE q

\* onMessage of the promise q with request id r; a promise that has cleaned
\* up has no listener, it only counts the replies for r that come later
onMessage(q, r, m) ==
    IF ~q.listening THEN [q EXCEPT !.late = @ + (IF m.requestId = r THEN 1 ELSE 0)]
    ELSE IF m.type = "snowcord:count:result" /\ m.requestId = r THEN Settle(q, "success")
    ELSE IF m.type = "snowcord:action:ok" /\ m.requestId = r THEN Settle(q, "success")
    ELSE IF m.type = "snowcord:action:error" /\ m.requestId = r THEN Settle(q, "error")
    ELSE q

\* the front-end before its first control action: requests by request id,
\* the actions the runtime is working on and the messages on their way to
\* the front-end
NoCli == [requests |-> << >>, running |-> {}, inbox |-> << >>,
          connected |-> TRUE]

\* ------------------------------------------------------------------ dev mode
\* a ChildProcess of the front-end: st none (null), running or gone; exitCode
\* is TRUE when child.exitCode !== null; shutdown: the runtime was sent
\* { type: "snowcord:shutdown" }
NoRuntime == [st |-> "none", exitCode |-> FALSE, killed |-> FALSE, shutdown |-> FALSE]
\* spawn(process.execPath, [entryPoint], ...)
NewRuntime == [NoRuntime EXCEPT !.st = "running"]
\* the path buildSnowcordProject returns; "" is null
EntryPoint == "index.js"

\* runDev before its first restart().  Ghost: runs (every restart that got
\* past the `restarting` test, with its position), absorbed (the
\* forceFullRestart of the calls that found a restart running, since the last
\* follow-up), inputs (file changes, commands and crashes so far).
NoDev ==
    [restarting |-> FALSE, pendingRestart |-> FALSE, pendingFullRestart |-> FALSE,
     activeChild |-> NoRuntime, activeEntryPoint |-> "",
     timer |-> [armed |-> FALSE, force |-> FALSE],
     runs |-> << >>, absorbed |-> << >>, inputs |-> 0]

\* killChild of the front-end does not resolve at once
DevKillWaits(c) == c.st # "none" /\ ~c.killed /\ ~c.exitCode
\* killChild that waits: a connected child is sent the shutdown message,
\* child.kill() of a child that is gone sends nothing
DevKillStart(c) == IF c.st = "running" THEN [c EXCEPT !.shutdown = TRUE] ELSE c

NewRun(force, followUp, took) ==
    [pc |-> "env", forceFullRestart |-> force, followUp |-> followUp, took |-> took]

\* restart(forceFullRestart), up to its first await
restart(d, force) ==
    IF d.restarting
    THEN [d EXCEPT !.pendingRestart = TRUE,
                   !.pendingFullRestart = @ \/ force,
                   !.absorbed = Append(@, force)]
    ELSE [d EXCEPT !.restarting = TRUE,
                   !.runs = Append(@, NewRun(force, FALSE, << >>))]

\* the finally block of restart number i
DevFinally(d, i) ==
    LET d1 == [d EXCEPT !.runs[i].pc = "done", !.restarting = FALSE] IN
    IF d1.pendingRestart
    THEN LET d2 == restart([d1 EXCEPT !.pendingRestart = FALSE,
                                      !.pendingFullRestart = FALSE,
                                      !.absorbed = << >>],
                           d1.pendingFullRestart)
         IN  IF Len(d2.runs) > Len(d1.runs)
             THEN [d2 EXCEPT !.runs[Len(d2.runs)].followUp = TRUE,
                             !.runs[Len(d2.runs)].took = d1.absorbed]
             ELSE d2
    ELSE d1

\* activeChild = spawnRuntime(entryPoint); return
DevSpawn(d, i) ==
    DevFinally([d EXCEPT !.activeChild = NewRuntime,
                         !.activeEntryPoint = EntryPoint], i)

\* from the end of buildSnowcordProject to the next await
DevAfterBuild(d, i) ==
    LET c == d.activeChild IN
    IF c.st = "none" \/ c.exitCode \/ d.activeEntryPoint # EntryPoint
    THEN IF DevKillWaits(c)
         THEN [d EXCEPT !.activeChild = DevKillStart(c), !.runs[i].pc = "kill2"]
         ELSE DevSpawn(d, i)
    ELSE \* requestRuntimeAction rejects at once when !child.connected
         IF c.st # "running" THEN DevFinally(d, i)
         ELSE [d EXCEPT !.runs[i].pc = "reload"]

\* activeChild = null; activeEntryPoint = null; then the build is awaited
DevAfterKill1(d, i) ==
    [d EXCEPT !.activeChild = NoRuntime, !.activeEntryPoint = "",
              !.runs[i].pc = "build"]

\* from the end of loadEnvFile to the next await
DevAfterEnv(d, i) ==
    LET c == d.activeChild IN
    IF d.runs[i].forceFullRestart /\ c.st # "none" /\ ~c.exitCode
    THEN IF DevKillWaits(c)
         THEN [d EXCEPT !.activeChild = DevKillStart(c), !.runs[i].pc = "kill1"]
         ELSE DevAfterKill1(d, i)
    ELSE [d EXCEPT !.runs[i].pc = "build"]

\* the exit event of the runtime reaches the killChild that waits for it
RECURSIVE DevWake(_, _)
DevWake(d, i) ==
    IF i > Len(d.runs) THEN d
    ELSE IF d.runs[i].pc = "kill1" THEN DevWake(DevAfterKill1(d, i), i + 1)
    ELSE IF d.runs[i].pc = "kill2" THEN DevWake(DevSpawn(d, i), i + 1)
    ELSE DevWake(d, i + 1)

\* ------------------------------------------------------ executor registries
\* a custom id is a string, written as the sequence of its characters; the
\* ids used are the empty string and one-character strings
CustomIds == {<< >>} \cup { << c >> : c \in 1..(REGISTRY_LIMIT + 1) }
\* if (oldestKey): a string is truthy unless it is empty
Truthy(id) == id # << >>

\* a Map<string, executor> is the sequence of its keys in insertion order
\* (the executors play no part in what is kept).  Ghost: componentRecent and
\* modalRecent, the ids registered since the last clear, least recently
\* registered first.
NoRegistry ==
    [componentExecutors |-> << >>, modalExecutors |-> << >>,
     componentRecent |-> << >>, modalRecent |-> << >>]

Has(store, id) == \E k \in 1..Len(store) : store[k] = id
Delete(store, id) == SelectSeq(store, LAMBDA key : key # id)

\* setWithLimit(store, customId, executor)
setWithLimit(store, customId) ==
    LET s1 == IF Has(store, customId) THEN Delete(store, customId) ELSE store
        s2 == Append(s1, customId)
    IN  IF Len(s2) <= REGISTRY_LIMIT THEN s2
        ELSE LET oldestKey == Head(s2) IN
             IF Truthy(oldestKey) THEN Delete(s2, oldestKey) ELSE s2

\* registerComponentExecutor(customId, executor)
registerComponentExecutor(g, customId) ==
    [g EXCEPT !.componentExecutors = setWithLimit(@, customId),
              !.componentRecent = Append(Delete(@, customId), customId)]

\* registerModalExecutor(customId, executor)
registerModalExecutor(g, customId) ==
    [g EXCEPT !.modalExecutors = setWithLimit(@, customId),
              !.modalRecent = Append(Delete(@, customId), customId)]

\* registerRef(customId, executor)
registerRef(g, customId) ==
    registerModalExecutor(registerComponentExecutor(g, customId), customId)

\* -------------------------------------------------------------------- Init
\* the planner has not been run
NoPlanner ==
    [firstShardId |-> 0, lastShardId |-> 0, workers |-> 0, out |-> << >>,
     again |-> << >>, mode |-> "number", list |-> << >>,
     clustersSet |-> FALSE, clusters |-> 0, err |-> FALSE]

\* startWorkerRuntime: spawnRestWorker(), spawnBotWorker for every worker of
\* the plan, spawnGatewayWorker()
InitState(pl) ==
    LET ids == { pl[k].id : k \in 1..Len(pl) }
        s0 == [ botChildren |-> [w \in ids |-> NoChild],
                expectedBotWorkerShutdowns |-> {},
                shardInfoRequests |-> {},
                pendingEvents |-> << >>,
                restChild |-> NoChild,
                gatewayChild |-> NoChild,
                stopped |-> FALSE,
                reloading |-> FALSE,
                procs |-> << >>,
                timers |-> {},
                ops |-> << >>,
                waitq |-> << >>,
                calls |-> << >>,
                restartWin |-> [w \in ids |->
                    [phase |-> "idle", pid |-> NoChild, evs |-> << >>,
                     ready0 |-> FALSE]] ]
        s1 == spawnRestWorker(s0, "init")
        bots(s, k) == spawnBotWorker(s, pl[k].id, "init")
        s2 == bots(bots(s1, 1), 2)
    IN  spawnGatewayWorker(s2, "init")

\* nothing has happened on the front-end and in the interaction layer
OthersInit == cli = NoCli /\ dev = NoDev /\ registry = NoRegistry

InitSupervisor(plans) ==
    /\ plan \in plans
    /\ shardOwner = BuildShardOwner(plan)
    /\ evCount = 0
    /\ stopPid = 0
    /\ LET s == InitState(plan) IN
        /\ botChildren = s.botChildren
        /\ expectedBotWorkerShutdowns = s.expectedBotWorkerShutdowns
        /\ shardInfoRequests = s.shardInfoRequests
        /\ pendingEvents = s.pendingEvents
        /\ restChild = s.restChild
        /\ gatewayChild = s.gatewayChild
        /\ stopped = s.stopped
        /\ reloading = s.reloading
        /\ procs = s.procs
        /\ timers = s.timers
        /\ ops = s.ops
        /\ waitq = s.waitq
        /\ restartWin = s.restartWin
        /\ calls = s.calls

InitWith(plans) ==
    InitSupervisor(plans) /\ planner = NoPlanner /\ http = NoHttp /\ OthersInit

Init == InitWith(Plans)
\* the plan plays no part where no event is routed and the order of a lazy
\* reload is not observed
InitLife == InitWith({EvenPlan})

\* an even plan, or one with an unowned shard
InitQueue == InitWith({EvenPlan, GapPlan})

\* the supervisor runs with no cluster list, an empty one, one cluster or two
InitCounts ==
    /\ InitSupervisor({EvenPlan, GapPlan})
    /\ \E cs \in BOOLEAN, c \in 0..2 :
            /\ ~cs => c = 0
            /\ planner = [NoPlanner EXCEPT !.clustersSet = cs, !.clusters = c]
    /\ http = NoHttp /\ OthersInit

\* the planner is about to be called with botWorkers: workers for the range
\* first..last of at least one shard
InitPlan ==
    /\ InitSupervisor({EvenPlan})
    /\ \E first \in 0..MaxFirstShard, total \in 1..MaxShards, workers \in 1..MaxWorkers :
            planner = [NoPlanner EXCEPT !.firstShardId = first,
                                        !.lastShardId = first + total - 1,
                                        !.workers = workers]
    /\ http = NoHttp /\ OthersInit

\* the worker specifications of an explicit list: a shard array of up to two
\* values or a range { start, end }, under one of two ids
ShardValues == (0 - 1)..MaxListShard
ShardArrays ==
    {<< >>} \cup { << a >> : a \in ShardValues }
            \cup { << a, b >> : a \in ShardValues, b \in ShardValues }
ShardInputs ==
    { [array |-> TRUE, items |-> q, start |-> 0, end |-> 0] : q \in ShardArrays }
    \cup { [array |-> FALSE, items |-> << >>, start |-> a, end |-> b] :
                a \in ShardValues, b \in 0..MaxListShard }
WorkerSpecs == [id : {"a", "b"}, shards : ShardInputs]
ExplicitLists ==
    {<< >>} \cup { << w >> : w \in WorkerSpecs }
            \cup { << w, v >> : w \in WorkerSpecs, v \in WorkerSpecs }

\* the configurations handed to buildRuntimeConfig: "auto", a number, no
\* worker specification, with no cluster list, an empty one, one cluster or
\* two (without a cluster the default cluster starts at shard 0); or an
\* explicit worker list
Configs ==
    { [NoPlanner EXCEPT !.mode = m, !.workers = n, !.firstShardId = first,
                        !.lastShardId = last, !.clustersSet = cs, !.clusters = c] :
        m \in {"auto", "number", "default"}, n \in 0..MaxCfgWorkers,
        first \in 0..MaxCfgFirst, last \in ShardValues,
        cs \in BOOLEAN, c \in 0..2 }
    \cup { [NoPlanner EXCEPT !.mode = "list", !.list = l, !.lastShardId = last] :
                l \in ExplicitLists, last \in 0..MaxListShard }

\* before startWorkerRuntime: nothing is forked, the closure state does not
\* exist yet
PreStartup ==
    /\ plan = << >>
    /\ shardOwner = << >>
    /\ botChildren = << >>
    /\ expectedBotWorkerShutdowns = {}
    /\ shardInfoRequests = {}
    /\ pendingEvents = << >>
    /\ restChild = NoChild
    /\ gatewayChild = NoChild
    /\ stopped = FALSE
    /\ reloading = FALSE
    /\ procs = << >>
    /\ timers = {}
    /\ ops = << >>
    /\ waitq = << >>
    /\ restartWin = << >>
    /\ evCount = 0
    /\ stopPid = 0
    /\ calls = << >>
    /\ http = NoHttp /\ OthersInit

\* buildRuntimeConfig is about to be called with one of the configurations
InitConfig ==
    /\ planner \in { cfg \in Configs :
            /\ cfg.mode # "number" => cfg.workers = 0
            /\ ~cfg.clustersSet => cfg.clusters = 0
            /\ ClusterCount(cfg) = 0 \/ ~cfg.clustersSet => cfg.firstShardId = 0 }
    /\ PreStartup

\* the configurations the routing is checked with: botWorkers: 2 over the
\* shards 0..1, and every explicit list of two workers with ids among a, b
\* (also the same id twice) and shard lists among [0], [1], [0, 1]
OwnerShardLists == { << 0 >>, << 1 >>, << 0, 1 >> }
OwnerConfigs ==
    { [NoPlanner EXCEPT !.mode = "number", !.workers = 2, !.lastShardId = 1] }
    \cup { [NoPlanner EXCEPT !.mode = "list", !.list = << w, v >>, !.lastShardId = 1] :
                w \in [id : {"a", "b"},
                       shards : { [array |-> TRUE, items |-> q, start |-> 0, end |-> 0] :
                                    q \in OwnerShardLists }],
                v \in [id : {"a", "b"},
                       shards : { [array |-> TRUE, items |-> q, start |-> 0, end |-> 0] :
                                    q \in OwnerShardLists }] }

InitOwner == planner \in OwnerConfigs /\ PreStartup

\* the request proxy listens with the secret the supervisor drew for this run
InitRest ==
    /\ InitSupervisor({EvenPlan})
    /\ planner = NoPlanner
    /\ \E secret \in Secrets : http = [NoHttp EXCEPT !.authorization = secret]
    /\ OthersInit

\* the front-end sends control actions over the channel to the runtime process
InitAction == InitSupervisor({EvenPlan}) /\ planner = NoPlanner /\ http = NoHttp /\ OthersInit

\* the state of startWorkerRuntime, which the front-end and the interaction
\* layer never touch
supervisorVars ==
    << plan, shardOwner, botChildren, expectedBotWorkerShutdowns,
       shardInfoRequests, pendingEvents, restChild, gatewayChild, stopped,
       reloading, procs, timers, ops, waitq, restartWin, evCount, stopPid,
       calls, planner, http >>

Fixed == UNCHANGED << plan, shardOwner, planner, http, cli, dev, registry >>

\* ----------------------------------------------------------------- actions
Crashed == { p \in DOMAIN procs : procs[p].crashed }
\* the inputs taken so far
Inputs == Len(ops) + evCount + Cardinality(Crashed)

HasShutdown(p) == \E k \in 1..Len(procs[p].inbox) : procs[p].inbox[k] = ShutdownMsg

\* the gateway process g forwards an event of shard sh to the supervisor
GatewayEvent(g, sh) ==
    /\ procs[g].role = "gateway"
    /\ procs[g].st = "alive"
    /\ evCount' = evCount + 1
    /\ Apply(RouteEvent(Cur, EventMsg(evCount + 1, sh, g)))
    /\ Fixed /\ UNCHANGED stopPid

\* botProcess main sends { type: "runtime:bot:ready", workerId } and the
\* supervisor receives it
BotReady(p) ==
    /\ procs[p].role = "bot"
    /\ procs[p].st = "alive"
    /\ procs[p].ann = "no"
    /\ Apply(OnBotReady(Cur, p))
    /\ Fixed /\ UNCHANGED << evCount, stopPid >>

\* killChild's 5s timer: child.kill("SIGKILL") of a child that has not exited
KillTimeout(p) ==
    /\ procs[p].st = "alive"
    /\ ~procs[p].killed
    /\ \E i \in 1..Len(ops) : p \in ops[i].wait
    /\ procs' = [procs EXCEPT ![p].killed = TRUE]
    /\ UNCHANGED << plan, shardOwner, botChildren, expectedBotWorkerShutdowns,
                    shardInfoRequests, pendingEvents, restChild, gatewayChild,
                    stopped, reloading, timers, ops, waitq, restartWin, evCount,
                    stopPid, calls, planner, http, cli, dev, registry >>

\* a child that was sent the shutdown message (or SIGKILL) exits and its exit
\* event reaches the supervisor
ExitEvent(p) ==
    /\ procs[p].st = "alive"
    /\ HasShutdown(p) \/ procs[p].killed
    /\ Apply(Wake(OnExit(Cur, p), p, waitq))
    /\ Fixed /\ UNCHANGED << evCount, stopPid >>

\* a child that was sent no shutdown message exits on its own and its exit
\* event reaches the supervisor
Crash(p) ==
    /\ procs[p].st = "alive"
    /\ ~HasShutdown(p)
    /\ Apply(Wake(OnExit([Cur EXCEPT !.procs[p].crashed = TRUE], p), p, waitq))
    /\ Fixed /\ UNCHANGED << evCount, stopPid >>

\* a child that was sent no shutdown message is ended by a signal that the
\* supervisor did not send (SIGINT to the process group, the kernel's OOM
\* killer, SIGSEGV) and its exit event reaches the supervisor
CrashBySignal(p) ==
    /\ procs[p].st = "alive"
    /\ ~HasShutdown(p)
    /\ ~procs[p].killed
    /\ Apply(Wake(OnExit([Cur EXCEPT !.procs[p].crashed = TRUE,
                                     !.procs[p].sig = TRUE], p), p, waitq))
    /\ Fixed /\ UNCHANGED << evCount, stopPid >>

\* the respawn timer armed by the exit of process p fires
RespawnTimer(p) ==
    /\ p \in timers
    /\ Apply(OnRespawnTimer(Cur, p))
    /\ Fixed /\ UNCHANGED << evCount, stopPid >>

\* a call of the control API: reload, reloadLazy, fullReload, stop
Call(kind) ==
    /\ LET s0 == [Cur EXCEPT !.ops = Append(@, NewOp(Cur, kind, NoWorker))]
           i == Len(s0.ops)
       IN  \* if (stopped) return
           IF stopped THEN Apply(Finish(s0, i)) ELSE Apply(Resume(s0, i))
    /\ stopPid' = IF kind = "stop" /\ ~stopped THEN Len(procs) + 1 ELSE stopPid
    /\ Fixed /\ UNCHANGED evCount

\* a restartBotWorkerById that flags the worker before it looks it up
RestartWorker_flagsFirst(workerId) ==
    /\ LET s0 == [Cur EXCEPT !.ops = Append(@, NewOp(Cur, "restart", workerId)),
                             !.expectedBotWorkerShutdowns = @ \cup {workerId}]
           i == Len(s0.ops)
       IN  IF FindWorker(workerId) = 0
           THEN Apply(Goto(s0, i, "rejected"))
           ELSE Apply(Resume(s0, i))
    /\ Fixed /\ UNCHANGED << evCount, stopPid >>

\* restartWorker(workerId) = restartBotWorkerById(workerId)
RestartWorker(workerId) ==
    /\ LET s0 == [Cur EXCEPT !.ops = Append(@, NewOp(Cur, "restart", workerId))]
           i == Len(s0.ops)
       IN  IF FindWorker(workerId) = 0
           THEN Apply(Goto(s0, i, "rejected"))   \* throw new Error("Unknown bot worker")
           ELSE Apply(Resume(s0, i))
    /\ Fixed /\ UNCHANGED << evCount, stopPid >>

\* restartShard(shardId)
RestartShard(shardId) ==
    /\ LET workerId == IF shardId \in DOMAIN shardOwner THEN shardOwner[shardId] ELSE NoWorker
           s0 == [Cur EXCEPT !.ops = Append(@, NewOp(Cur, "restart", workerId))]
           i == Len(s0.ops)
       IN  IF workerId = NoWorker
           THEN Apply(Goto(s0, i, "rejected"))   \* throw new Error("No worker owns shard")
           ELSE Apply(Resume(s0, i))
    /\ Fixed /\ UNCHANGED << evCount, stopPid >>

\* a getCounts that counts the registered worker processes
GetCounts_liveWorkers ==
    /\ ops' = Append(ops, [NewOp(Cur, "counts", NoWorker) EXCEPT
                !.pc = "done",
                !.ret = << lastShardId - firstShardId + 1,
                           Cardinality(ChildrenOf(Cur)),
                           ClusterCount(planner) >>])
    /\ UNCHANGED << plan, shardOwner, botChildren, expectedBotWorkerShutdowns,
                    shardInfoRequests, pendingEvents, restChild, gatewayChild,
                    stopped, reloading, procs, timers, waitq, restartWin,
                    evCount, stopPid, calls, planner, http, cli, dev, registry >>

\* getCounts(): an async function without an await; ret is what it resolves
\* to: << shard, worker, cluster >>
GetCounts ==
    /\ ops' = Append(ops, [NewOp(Cur, "counts", NoWorker) EXCEPT
                !.pc = "done",
                !.ret = << lastShardId - firstShardId + 1,
                           Len(plan),
                           ClusterCount(planner) >>])
    /\ UNCHANGED << plan, shardOwner, botChildren, expectedBotWorkerShutdowns,
                    shardInfoRequests, pendingEvents, restChild, gatewayChild,
                    stopped, reloading, procs, timers, waitq, restartWin,
                    evCount, stopPid, calls, planner, http, cli, dev, registry >>

\* syncCommandsInBackground of call i settles
SyncDone(i) ==
    /\ ops[i].kind \in {"reload", "lazy", "full"}
    /\ ops[i].pc # "done"
    /\ ~ops[i].sync
    /\ LET s0 == [Cur EXCEPT !.ops[i].sync = TRUE] IN
         CASE ops[i].kind = "reload" ->
                IF ops[i].pc = "sync" THEN Apply(Resume(s0, i)) ELSE Apply(s0)
           [] ops[i].kind = "lazy" -> Apply(Resume(Goto(s0, i, "loop"), i))
           [] ops[i].kind = "full" -> Apply(Resume(Goto(s0, i, "synced"), i))
    /\ Fixed /\ UNCHANGED << evCount, stopPid >>

BotProcs == { p \in DOMAIN procs : procs[p].role = "bot" }

\* getShardInfoFromGuild in worker process p: the nonce is fresh (time and
\* random digits), the request reaches the supervisor.  History: by (the
\* calling process), gw (the connection process at that moment, if it runs).
GetShardInfo(p) ==
    /\ procs[p].role = "bot"
    /\ procs[p].st = "alive"
    /\ LET n == Len(calls) + 1
           g == IF gatewayChild # NoChild /\ procs[gatewayChild].st = "alive"
                THEN gatewayChild ELSE NoChild
           s0 == [Cur EXCEPT !.calls = Append(@,
                    [by |-> p, st |-> "waiting", gw |-> g, fwd |-> 0, ans |-> 0])]
       IN  Apply(OnGetShardInfo(s0, p, n))
    /\ Fixed /\ UNCHANGED << evCount, stopPid >>

\* the first get-shard-info request among what the connection process g was sent
FirstRequest(g) ==
    CHOOSE k \in 1..Len(procs[g].inbox) :
        /\ procs[g].inbox[k].type = "get-shard-info"
        /\ \A j \in 1..(k - 1) : procs[g].inbox[j].type # "get-shard-info"

\* the connection process g answers a get-shard-info request and the
\* response reaches the supervisor
GatewayAnswer(g) ==
    /\ procs[g].role = "gateway"
    /\ procs[g].st = "alive"
    /\ \E k \in 1..Len(procs[g].inbox) : procs[g].inbox[k].type = "get-shard-info"
    /\ LET k == FirstRequest(g)
           n == procs[g].inbox[k].id
           s0 == [Cur EXCEPT !.procs[g].inbox =
                    SubSeq(@, 1, k - 1) \o SubSeq(@, k + 1, Len(@))]
       IN  Apply(OnShardInfoResponse(s0, ShardInfoResponse(n, g)))
    /\ Fixed /\ UNCHANGED << evCount, stopPid >>

\* the supervisor receives one more response with a nonce that was answered
DuplicateResponse(g, n) ==
    /\ procs[g].role = "gateway"
    /\ procs[g].st = "alive"
    /\ n \in DOMAIN calls
    /\ calls[n].ans = 1
    /\ Apply(OnShardInfoResponse(Cur, ShardInfoResponse(n, g)))
    /\ Fixed /\ UNCHANGED << evCount, stopPid >>

\* the 5s timer of getShardInfoFromGuild: cleanup(), reject
InfoTimeout(n) ==
    /\ n \in DOMAIN calls
    /\ calls[n].st = "waiting"
    /\ procs[calls[n].by].st = "alive"
    /\ calls' = [calls EXCEPT ![n].st = "timeout"]
    /\ UNCHANGED << plan, shardOwner, botChildren, expectedBotWorkerShutdowns,
                    shardInfoRequests, pendingEvents, restChild, gatewayChild,
                    stopped, reloading, procs, timers, ops, waitq, restartWin,
                    evCount, stopPid, planner, http, cli, dev, registry >>

\* normalizeBotWorkers is called with the inputs held in planner
RunPlanner ==
    /\ planner.workers > 0
    /\ planner.out = << >>
    /\ planner' = [planner EXCEPT !.out =
            normalizeBotWorkers(planner.workers, planner.firstShardId,
                                planner.lastShardId)]
    /\ UNCHANGED << plan, shardOwner, botChildren, expectedBotWorkerShutdowns,
                    shardInfoRequests, pendingEvents, restChild, gatewayChild,
                    stopped, reloading, procs, timers, ops, waitq, restartWin,
                    evCount, stopPid, calls, http, cli, dev, registry >>

\* normalizeBotWorkers is called once more with the same inputs
RunPlannerAgain ==
    /\ planner.out # << >>
    /\ planner.again = << >>
    /\ planner' = [planner EXCEPT !.again =
            normalizeBotWorkers(planner.workers, planner.firstShardId,
                                planner.lastShardId)]
    /\ UNCHANGED << plan, shardOwner, botChildren, expectedBotWorkerShutdowns,
                    shardInfoRequests, pendingEvents, restChild, gatewayChild,
                    stopped, reloading, procs, timers, ops, waitq, restartWin,
                    evCount, stopPid, calls, http, cli, dev, registry >>

\* buildRuntimeConfig: normalizeCluster with the configuration held in
\* planner; it returns the plan or throws
BuildRuntimeConfig ==
    /\ planner.out = << >>
    /\ ~planner.err
    /\ LET r == normalizeCluster(planner)
       IN  planner' = [planner EXCEPT !.out = r.botWorkers, !.err = r.err]
    /\ UNCHANGED << plan, shardOwner, botChildren, expectedBotWorkerShutdowns,
                    shardInfoRequests, pendingEvents, restChild, gatewayChild,
                    stopped, reloading, procs, timers, ops, waitq, restartWin,
                    evCount, stopPid, calls, http, cli, dev, registry >>

\* for (worker of botWorkers) for (shardId of worker.shards)
\* shardOwner.set(shardId, worker.id): the last worker that lists a shard
\* owns it
ShardOwnerOf(pl) ==
    [ sh \in UNION { SeqToSet(pl[k].shards) : k \in 1..Len(pl) } |->
        pl[CHOOSE k \in 1..Len(pl) :
              /\ sh \in SeqToSet(pl[k].shards)
              /\ \A j \in 1..Len(pl) : sh \in SeqToSet(pl[j].shards) => j <= k].id ]

\* startWorkerRuntime once buildRuntimeConfig has returned: the ownership
\* map is built, then spawnRestWorker(), spawnBotWorker for every worker of
\* the plan (botChildren.set overwrites an entry of the same id),
\* spawnGatewayWorker()
Startup ==
    /\ planner.out # << >>
    /\ procs = << >>
    /\ LET pl == planner.out
           ids == { pl[k].id : k \in 1..Len(pl) }
       IN  /\ plan' = pl
           /\ shardOwner' = ShardOwnerOf(pl)
           /\ procs' = << NewProc("rest", NoWorker, "init") >>
                        \o [k \in 1..Len(pl) |->
                                [NewProc("bot", pl[k].id, "init") EXCEPT !.cfg = k]]
                        \o << NewProc("gateway", NoWorker, "init") >>
           /\ restChild' = 1
           /\ botChildren' = [ w \in ids |->
                    1 + CHOOSE k \in 1..Len(pl) :
                            /\ pl[k].id = w
                            /\ \A j \in 1..Len(pl) : pl[j].id = w => j <= k ]
           /\ gatewayChild' = Len(pl) + 2
           /\ restartWin' = [ w \in ids |->
                    [phase |-> "idle", pid |-> NoChild, evs |-> << >>,
                     ready0 |-> FALSE] ]
    /\ UNCHANGED << expectedBotWorkerShutdowns, shardInfoRequests, pendingEvents,
                    stopped, reloading, timers, ops, waitq, evCount, stopPid,
                    calls, planner, http, cli, dev, registry >>

\* one HTTP request reaches the request proxy and is answered
HttpRequest(auth, method, url) ==
    /\ http.handled < MaxRequests
    /\ \E body \in Bodies, api \in ApiResults :
        LET r == HandleRequest(http.authorization,
                               [auth |-> auth, method |-> method, url |-> url],
                               body, api)
        IN  http' = [http EXCEPT !.handled = @ + 1,
                                 !.apiCalls = @ + (IF r.called THEN 1 ELSE 0),
                                 !.last = << r >>]
    /\ UNCHANGED << plan, shardOwner, botChildren, expectedBotWorkerShutdowns,
                    shardInfoRequests, pendingEvents, restChild, gatewayChild,
                    stopped, reloading, procs, timers, ops, waitq, restartWin,
                    evCount, stopPid, calls, planner, cli, dev,
                    registry >>

\* requestRuntimeAction(child, { type, requestId }): the request id is a fresh
\* UUID, here the number of the request
RequestRuntimeAction(type) ==
    /\ Len(cli.requests) < MaxActions
    /\ LET r == Len(cli.requests) + 1 IN
        IF ~cli.connected
        THEN cli' = [cli EXCEPT !.requests =
                        Append(@, Settle(NewRequest(type), "nochannel"))]
        ELSE cli' = [cli EXCEPT !.requests = Append(@, NewRequest(type)),
                                !.running = @ \cup {r}]
    /\ UNCHANGED << supervisorVars, dev, registry >>

\* the runtime process finishes the action with request id r and answers
RuntimeFinish(r, throws) ==
    /\ cli.connected
    /\ r \in cli.running
    /\ cli' = [cli EXCEPT !.running = @ \ {r},
                          !.inbox = @ \o withAction(r, cli.requests[r].type, throws)]
    /\ UNCHANGED << supervisorVars, dev, registry >>

\* child.on("message"): the next message of the runtime process reaches
\* every listener
ChildMessage ==
    /\ cli.inbox # << >>
    /\ cli' = [cli EXCEPT !.inbox = Tail(@),
                          !.requests = [r \in DOMAIN @ |->
                                            onMessage(@[r], r, Head(cli.inbox))]]
    /\ UNCHANGED << supervisorVars, dev, registry >>

\* the 30 s timer of request r fires
ActionTimeout(r) ==
    /\ r \in DOMAIN cli.requests
    /\ cli.requests[r].timeout
    /\ cli' = [cli EXCEPT !.requests[r] = Settle(@, "timeout")]
    /\ UNCHANGED << supervisorVars, dev, registry >>

\* the runtime process exits: its channel closes and it answers no more
RuntimeExit ==
    /\ cli.connected
    /\ cli' = [cli EXCEPT !.connected = FALSE, !.running = {}]
    /\ UNCHANGED << supervisorVars, dev, registry >>

\* ---------------------------------------------------------- specifications
\* Routing and single-worker restarts: gateway events, restartWorker,
\* restartShard and reloadLazy, with no crash and no stop.
Next ==
    \/ \E p \in DOMAIN procs : BotReady(p)
    \/ \E p \in DOMAIN procs : ExitEvent(p)
    \/ \E i \in DOMAIN ops : SyncDone(i)
    \/ Inputs < MaxInputs /\ \E g \in DOMAIN procs, sh \in ClusterShards : GatewayEvent(g, sh)
    \/ Inputs < MaxInputs /\ \E workerId \in WorkerIds \cup {UnknownWorker} :
                                    RestartWorker(workerId)
    \/ Inputs < MaxInputs /\ \E shardId \in firstShardId..lastShardId + 1 :
                                    RestartShard(shardId)
    \/ Inputs < MaxInputs /\ Call("lazy")

Spec == Init /\ [][Next]_vars

\* The life cycle of the children: every call of the control API, crashes of
\* bot workers, the respawn timers and killChild's timers.  The gateway
\* forwards no event here, so pendingEvents stays empty and the readiness
\* handler (which only flushes pendingEvents) has nothing to do.
NextLife ==
    \/ \E p \in DOMAIN procs : ExitEvent(p)
    \/ \E p \in DOMAIN procs : KillTimeout(p)
    \/ \E i \in DOMAIN ops : SyncDone(i)
    \/ \E p \in DOMAIN procs : RespawnTimer(p)
    \/ Inputs < MaxLifeInputs /\ \E p \in BotProcs : Crash(p)
    \/ Inputs < MaxLifeInputs /\ \E workerId \in WorkerIds \cup {UnknownWorker} :
                                        RestartWorker(workerId)
    \/ Inputs < MaxLifeInputs /\ Call("reload")
    \/ Inputs < MaxLifeInputs /\ Call("lazy")
    \/ Inputs < MaxLifeInputs /\ Call("full")
    \/ Inputs < MaxLifeInputs /\ Call("stop")

SpecLife == InitLife /\ [][NextLife]_vars

\* Crashes and respawns next to restarts of single workers and reloads.
NextRespawn ==
    \/ \E p \in DOMAIN procs : ExitEvent(p)
    \/ \E i \in DOMAIN ops : SyncDone(i)
    \/ \E p \in DOMAIN procs : RespawnTimer(p)
    \/ Inputs < MaxRespawnInputs /\ \E p \in BotProcs : Crash(p)
    \/ Inputs < MaxRespawnInputs /\ \E workerId \in WorkerIds : RestartWorker(workerId)
    \/ Inputs < MaxRespawnInputs /\ Call("reload")

SpecRespawn == InitLife /\ [][NextRespawn]_vars

\* The correlation of get-shard-info requests, next to restarts of workers.
NextInfo ==
    \/ \E p \in DOMAIN procs : ExitEvent(p)
    \/ \E g \in DOMAIN procs : GatewayAnswer(g)
    \/ \E g \in DOMAIN procs, n \in DOMAIN calls : DuplicateResponse(g, n)
    \/ \E n \in DOMAIN calls : InfoTimeout(n)
    \/ Len(calls) < MaxCalls /\ \E p \in BotProcs : GetShardInfo(p)
    \/ Len(ops) < MaxInfoRestarts /\ \E workerId \in WorkerIds : RestartWorker(workerId)

SpecInfo == InitLife /\ [][NextInfo]_vars

\* What fullReload and stop leave in pendingEvents and shardInfoRequests:
\* both calls, the events the connection process forwards meanwhile, the
\* exits they ask for and the readiness of the workers they fork.
NextClear ==
    \/ \E p \in DOMAIN procs : BotReady(p)
    \/ \E p \in DOMAIN procs : ExitEvent(p)
    \/ \E i \in DOMAIN ops : SyncDone(i)
    \/ Inputs < MaxClearInputs /\ \E g \in DOMAIN procs, sh \in ClusterShards :
                                        GatewayEvent(g, sh)
    \/ Inputs < MaxClearInputs /\ Call("full")
    \/ Inputs < MaxClearInputs /\ Call("stop")

SpecClear == InitLife /\ [][NextClear]_vars

\* The connection process and the request proxy: their unrequested exits,
\* with an exit code or by a signal, next to fullReload and stop.
NextChildren ==
    \/ \E p \in DOMAIN procs : ExitEvent(p)
    \/ \E p \in DOMAIN procs : KillTimeout(p)
    \/ \E i \in DOMAIN ops : SyncDone(i)
    \/ Inputs < MaxChildInputs /\ \E p \in DOMAIN procs \ BotProcs : Crash(p)
    \/ Inputs < MaxChildInputs /\ \E p \in DOMAIN procs \ BotProcs : CrashBySignal(p)
    \/ Inputs < MaxChildInputs /\ Call("full")
    \/ Inputs < MaxChildInputs /\ Call("stop")

SpecChildren == InitLife /\ [][NextChildren]_vars

\* The even split of a shard range over a number of workers.
NextPlan ==
    \/ RunPlanner
    \/ RunPlannerAgain

SpecPlan == InitPlan /\ [][NextPlan]_vars

\* The queue of pending events: what enters it, what a readiness flush takes
\* out of it and what clears it.
NextQueue ==
    \/ \E p \in DOMAIN procs : BotReady(p)
    \/ \E p \in DOMAIN procs : ExitEvent(p)
    \/ \E i \in DOMAIN ops : SyncDone(i)
    \/ evCount < MaxQueueEvents /\ \E g \in DOMAIN procs, sh \in ClusterShards :
                                        GatewayEvent(g, sh)
    \/ Len(ops) < MaxQueueCalls /\ \E workerId \in WorkerIds : RestartWorker(workerId)
    \/ Len(ops) < MaxQueueCalls /\ Call("full")
    \/ Len(ops) < MaxQueueCalls /\ Call("stop")

SpecQueue == InitQueue /\ [][NextQueue]_vars

\* getCounts in every state of the children: running, being restarted,
\* crashed and waiting for the respawn timer, stopped.
CountOps == { i \in DOMAIN ops : ops[i].kind = "counts" }
NextCounts ==
    \/ \E p \in DOMAIN procs : ExitEvent(p)
    \/ \E p \in DOMAIN procs : RespawnTimer(p)
    \/ Cardinality(CountOps) < MaxCountCalls /\ GetCounts
    \/ Inputs - Cardinality(CountOps) < MaxCountInputs /\ \E p \in BotProcs : Crash(p)
    \/ Inputs - Cardinality(CountOps) < MaxCountInputs
            /\ \E workerId \in WorkerIds : RestartWorker(workerId)
    \/ Inputs - Cardinality(CountOps) < MaxCountInputs /\ Call("stop")

SpecCounts == InitCounts /\ [][NextCounts]_vars

\* From the configuration to the first processes: buildRuntimeConfig, then
\* the startup of the supervisor.
NextConfig ==
    \/ BuildRuntimeConfig
    \/ Startup

SpecConfig == InitConfig /\ [][NextConfig]_vars

\* the request proxy alone: requests with every credential, method and URL
NextRest ==
    \/ \E method \in Methods, url \in Urls : HttpRequest(NoHeader, method, url)
    \/ \E v \in Secrets, method \in Methods, url \in Urls :
            HttpRequest(Header(v), method, url)
    \/ \E v \in {"", "S1", "Bearer s1"}, method \in Methods, url \in Urls :
            HttpRequest(Header(v), method, url)

SpecRest == InitRest /\ [][NextRest]_vars


\* control actions of the front-end, the replies of the runtime process and
\* the timers; a timer that is armed fires unless it is cleared
NextAction ==
    \/ RequestRuntimeAction("snowcord:reload")
    \/ RequestRuntimeAction("snowcord:count")
    \/ \E r \in 1..MaxActions : RuntimeFinish(r, FALSE)
    \/ \E r \in 1..MaxActions : RuntimeFinish(r, TRUE)
    \/ ChildMessage
    \/ \E r \in 1..MaxActions : ActionTimeout(r)
    \/ RuntimeExit

SpecAction ==
    /\ InitAction
    /\ [][NextAction]_vars
    /\ \A r \in 1..MaxActions : WF_vars(ActionTimeout(r))

\* Reloads to their end: reload, reloadLazy, fullReload and stop, crashes of
\* bot workers and unrequested exits of the other two children.  A child
\* that was asked to exit exits (at the latest on killChild's SIGKILL), the
\* command sync settles, and an armed timer fires.
ReloadKinds == {"reload", "lazy", "full"}
NextReload ==
    \/ \E p \in DOMAIN procs : ExitEvent(p)
    \/ \E p \in DOMAIN procs : KillTimeout(p)
    \/ \E i \in DOMAIN ops : SyncDone(i)
    \/ \E p \in DOMAIN procs : RespawnTimer(p)
    \/ Inputs < MaxReloadInputs /\ \E p \in BotProcs : Crash(p)
    \/ Inputs < MaxReloadInputs /\ \E p \in DOMAIN procs \ BotProcs : CrashBySignal(p)
    \/ Inputs < MaxReloadInputs /\ Call("reload")
    \/ Inputs < MaxReloadInputs /\ Call("lazy")
    \/ Inputs < MaxReloadInputs /\ Call("full")
    \/ Inputs < MaxReloadInputs /\ Call("stop")

\* what enables ExitEvent, SyncDone and RespawnTimer
ExitPending ==
    \E p \in DOMAIN procs : procs[p].st = "alive" /\ (HasShutdown(p) \/ procs[p].killed)
SyncPending ==
    \E i \in DOMAIN ops : ops[i].kind \in ReloadKinds /\ ops[i].pc # "done" /\ ~ops[i].sync
TimerPending == timers # {}

\* weak fairness of ExitEvent, SyncDone and RespawnTimer, written out with
\* their enabling conditions, and of killChild's SIGKILL timer
FairLife ==
    /\ WF_vars(\E p \in DOMAIN procs : KillTimeout(p))
    /\ []<>~ExitPending \/ []<><<\E p \in DOMAIN procs : ExitEvent(p)>>_vars
    /\ []<>~SyncPending \/ []<><<\E i \in DOMAIN ops : SyncDone(i)>>_vars
    /\ []<>~TimerPending \/ []<><<\E p \in DOMAIN procs : RespawnTimer(p)>>_vars

SpecReload == InitLife /\ [][NextReload]_vars /\ FairLife

\* The registry of worker processes under concurrent calls: restartWorker,
\* restartShard, reload, reloadLazy and fullReload next to crashes of
\* workers, respawn timers and exit events; stop() is never called.
NextRegistry ==
    \/ \E p \in DOMAIN procs : ExitEvent(p)
    \/ \E p \in DOMAIN procs : KillTimeout(p)
    \/ \E i \in DOMAIN ops : SyncDone(i)
    \/ \E p \in DOMAIN procs : RespawnTimer(p)
    \/ Inputs < MaxRegistryInputs /\ \E p \in BotProcs : Crash(p)
    \/ Inputs < MaxRegistryInputs /\ \E workerId \in WorkerIds : RestartWorker(workerId)
    \/ Inputs < MaxRegistryInputs /\ \E shardId \in ClusterShards : RestartShard(shardId)
    \/ Inputs < MaxRegistryInputs /\ Call("reload")
    \/ Inputs < MaxRegistryInputs /\ Call("lazy")
    \/ Inputs < MaxRegistryInputs /\ Call("full")

SpecRegistry == InitLife /\ [][NextRegistry]_vars

\* stop() next to the calls it may find suspended: restartWorker, reload,
\* reloadLazy and fullReload are called before stop() only.
NextStop ==
    \/ \E p \in DOMAIN procs : ExitEvent(p)
    \/ \E p \in DOMAIN procs : KillTimeout(p)
    \/ \E i \in DOMAIN ops : SyncDone(i)
    \/ \E p \in DOMAIN procs : RespawnTimer(p)
    \/ Inputs < MaxStopInputs /\ \E p \in BotProcs : Crash(p)
    \/ Inputs < MaxStopInputs /\ ~stopped /\ \E workerId \in WorkerIds : RestartWorker(workerId)
    \/ Inputs < MaxStopInputs /\ ~stopped /\ Call("reload")
    \/ Inputs < MaxStopInputs /\ ~stopped /\ Call("lazy")
    \/ Inputs < MaxStopInputs /\ ~stopped /\ Call("full")
    \/ Inputs < MaxStopInputs /\ ~stopped /\ Call("stop")

SpecStop == InitLife /\ [][NextStop]_vars

\* Crashes of workers next to reloads when stop() is never called; what is
\* pending happens: exits that were asked for, the command sync, the timers.
NextRecover ==
    \/ \E p \in DOMAIN procs : ExitEvent(p)
    \/ \E p \in DOMAIN procs : KillTimeout(p)
    \/ \E i \in DOMAIN ops : SyncDone(i)
    \/ \E p \in DOMAIN procs : RespawnTimer(p)
    \/ Inputs < MaxRecoverInputs /\ \E p \in BotProcs : Crash(p)
    \/ Inputs < MaxRecoverInputs /\ Call("reload")
    \/ Inputs < MaxRecoverInputs /\ Call("lazy")
    \/ Inputs < MaxRecoverInputs /\ Call("full")

SpecRecover == InitLife /\ [][NextRecover]_vars /\ FairLife

\* Routing from the configuration on: startup, the events the connection
\* process forwards for the shards that have an owner, crashes of workers,
\* their respawn and the readiness flush.
NextOwner ==
    \/ BuildRuntimeConfig
    \/ Startup
    \/ \E p \in DOMAIN procs : BotReady(p)
    \/ \E p \in DOMAIN procs : RespawnTimer(p)
    \/ evCount < MaxOwnerEvents /\ \E g \in DOMAIN procs, sh \in DOMAIN shardOwner :
                                        GatewayEvent(g, sh)
    \/ Cardinality(Crashed) < MaxOwnerCrashes /\ \E p \in BotProcs : Crash(p)

SpecOwner == InitOwner /\ [][NextOwner]_vars

\* ------------------------------------------------------------------ claims
EventIds(q) == { q[k].id : k \in { j \in 1..Len(q) : q[j].type = "event" } }
\* the ids of the events of inbox q that are in the sequence evs, in the
\* order of q
RECURSIVE EventsAmong(_, _)
EventsAmong(q, evs) ==
    IF q = << >> THEN << >>
    ELSE IF Head(q).type = "event" /\ Head(q).id \in SeqToSet(evs)
         THEN << Head(q).id >> \o EventsAmong(Tail(q), evs)
         ELSE EventsAmong(Tail(q), evs)

ShardsOf(workerId) == SeqToSet(plan[FindWorker(workerId)].shards)
Lowest(S) == CHOOSE x \in S : \A y \in S : x <= y

\* C1: the events for a shard of worker W that reach the supervisor between
\* the start of W's restart (W was ready) and the readiness of the respawned
\* W are all sent to the respawned process, in arrival order, and to no other
\* worker process.
C1_RestartDeliversInOrder ==
    \A w \in WorkerIds :
        /\ restartWin[w].phase = "closed"
        /\ restartWin[w].ready0
        /\ procs[restartWin[w].pid].st = "alive"
        =>
            /\ EventsAmong(procs[restartWin[w].pid].inbox, restartWin[w].evs)
                    = restartWin[w].evs
            /\ \A q \in BotProcs \ {restartWin[w].pid} :
                    EventIds(procs[q].inbox) \cap SeqToSet(restartWin[w].evs) = {}

\* C2: a worker process whose readiness announcement the supervisor has not
\* received has been sent no event (its events wait in the pending queue).
C2_EventsWaitForReadiness ==
    \A p \in BotProcs :
        procs[p].st = "alive" /\ procs[p].ann = "no" => EventIds(procs[p].inbox) = {}

\* C3: during single-worker restarts and lazy reloads no event is sent to a
\* worker process after the supervisor has sent it the shutdown message.
C3_NoEventAfterShutdown ==
    \A p \in BotProcs : \A j, k \in 1..Len(procs[p].inbox) :
        j < k /\ procs[p].inbox[j] = ShutdownMsg => procs[p].inbox[k].type # "event"

\* C4: a lazy reload sends the shutdown message to the workers in ascending
\* order of their lowest shard id, workers that own no shard last.
C4_LazyShutdownOrder ==
    \A i \in DOMAIN ops : ops[i].kind = "lazy" =>
        \A a, b \in 1..Len(ops[i].shut) : a < b =>
            LET A == ShardsOf(ops[i].shut[a])
                B == ShardsOf(ops[i].shut[b])
            IN  /\ A = {} => B = {}
                /\ A # {} /\ B # {} => Lowest(A) < Lowest(B)

\* C4 witness: a lazy reload has sent the shutdown message to both workers of
\* a plan that lists the worker with the higher (or no) first shard first.
C4_Witness ==
    \E i \in DOMAIN ops :
        /\ ops[i].kind = "lazy"
        /\ ops[i].pc = "done"
        /\ Len(ops[i].shut) = 2
        /\ plan # EvenPlan

\* C5: while a lazy reload that started with every worker ready is the only
\* call in progress, at most one worker is without a live process that has
\* announced readiness.
C5_LazyOneWorkerAtATime ==
    (Len(ops) = 1 /\ ops[1].kind = "lazy" /\ ops[1].readyStart /\ ops[1].pc # "done")
        => Cardinality({ w \in WorkerIds : ~Ready(Cur, w) }) <= 1

\* C6: a reload, lazy reload or full reload called while an earlier one is
\* still in progress sends no shutdown message and forks no process.
C6_OneReloadAtATime ==
    \A i, j \in DOMAIN ops :
        /\ i < j
        /\ ops[i].kind \in {"reload", "lazy", "full"}
        /\ ops[j].kind \in {"reload", "lazy", "full"}
        /\ ops[i].pc # "done"
        => ~ops[j].acted

\* C7: no worker process forked after stop() was called has been forked by a
\* respawn timer.
C7_NoRespawnAfterStop ==
    \A p \in BotProcs :
        procs[p].by = "timer" => stopPid = 0 \/ p < stopPid

\* C7 witness: a respawn timer armed before stop() has fired after it, and
\* the exit event of another worker has arrived after stop().
C7_Witness ==
    /\ stopped
    /\ \E p \in BotProcs : procs[p].crashed /\ procs[p].tmr = "stopped"
    /\ \E p \in BotProcs : procs[p].st = "gone" /\ procs[p].dec = "quiet"

\* C8: a call of reload, reloadLazy, fullReload, restartWorker or restartShard
\* made after stop() sends no shutdown message and forks no process.
C8_NoOpAfterStop ==
    \A i \in DOMAIN ops : ops[i].afterStop /\ ops[i].kind # "stop" => ~ops[i].acted

\* C9: the exit of a worker process that crashed (no shutdown had been sent
\* to it) while the supervisor was neither stopped nor reloading arms the
\* respawn timer.
C9_CrashArmsRespawn ==
    \A p \in BotProcs :
        procs[p].st = "gone" /\ procs[p].crashed /\ procs[p].idle
            => procs[p].dec = "timer"

\* C10: the exit of a child that the supervisor asked to shut down (worker,
\* connection or request proxy) is neither logged as a failure nor followed
\* by a respawn timer.
C10_RequestedExitQuiet ==
    \A p \in DOMAIN procs :
        procs[p].st = "gone" /\ ~procs[p].crashed => procs[p].dec \notin {"logged", "timer"}

\* C11: an entry of the correlation map names the process that sent the
\* request; a request made while the connection process runs is forwarded to
\* it; a response is forwarded to the requester only, at most once per
\* nonce, and once a response has arrived the entry of its nonce is gone.
C11_ShardInfoCorrelated ==
    /\ \A e \in shardInfoRequests : calls[e[1]].by = e[2]
    /\ \A n \in DOMAIN calls :
            /\ calls[n].fwd <= 1
            /\ calls[n].ans >= 1 => MapGet(shardInfoRequests, n) = NoChild
            /\ (calls[n].ans = 0 /\ calls[n].gw # NoChild /\ procs[calls[n].gw].st = "alive")
                    => /\ MapGet(shardInfoRequests, n) = calls[n].by
                       /\ \E k \in 1..Len(procs[calls[n].gw].inbox) :
                             procs[calls[n].gw].inbox[k] = GetShardInfoMsg(n, calls[n].by)
    /\ \A p \in DOMAIN procs : \A k \in 1..Len(procs[p].inbox) :
            procs[p].inbox[k].type = "shard-info-response"
                => calls[procs[p].inbox[k].id].by = p

\* C11 witness: a response was forwarded to its requester and resolved the
\* call, and a second response with the same nonce was forwarded to nobody.
C11_Witness ==
    \E n \in DOMAIN calls :
        /\ calls[n].st = "resolved"
        /\ calls[n].ans = 2
        /\ calls[n].fwd = 1
        /\ \E k \in 1..Len(procs[calls[n].by].inbox) :
                procs[calls[n].by].inbox[k].type = "shard-info-response"

\* C12: a call that has timed out has no entry in the correlation map.
C12_TimeoutRemovesEntry ==
    \A n \in DOMAIN calls :
        calls[n].st = "timeout" => MapGet(shardInfoRequests, n) = NoChild

\* C13: restartWorker with an id that is in no plan and restartShard with a
\* shard that no worker owns are rejected, and the step changes nothing of
\* the supervisor: no child is sent anything, killed or forked, no worker is
\* flagged as expected to exit, no other call moves.
C13_RejectedRestartChangesNothing ==
    [][ ( /\ Len(ops') = Len(ops) + 1
          /\ ops'[Len(ops')].kind = "restart"
          /\ ops'[Len(ops')].wid \notin WorkerIds )
        => ( /\ ops'[Len(ops')].pc = "rejected"
             /\ ~ops'[Len(ops')].acted
             /\ SubSeq(ops', 1, Len(ops)) = ops
             /\ UNCHANGED << botChildren, expectedBotWorkerShutdowns,
                             shardInfoRequests, pendingEvents, restChild,
                             gatewayChild, stopped, reloading, procs, timers,
                             waitq, restartWin >> ) ]_vars
\* both rejections have happened: an unknown worker id and an unowned shard
C13_Witness ==
    /\ \E i \in DOMAIN ops : ops[i].pc = "rejected" /\ ops[i].wid = UnknownWorker
    /\ \E i \in DOMAIN ops : ops[i].pc = "rejected" /\ ops[i].wid = NoWorker

\* a step in which a restart of worker w is called or resumes
RestartStepOf(w) ==
    \E i \in DOMAIN ops' :
        /\ ops'[i].kind = "restart"
        /\ ops'[i].wid = w
        /\ ops'[i].pc # "rejected"
        /\ i \in DOMAIN ops => ops'[i] # ops[i]
\* no call other than restarts of single workers moves in the step
OnlyRestartsMove ==
    \A j \in DOMAIN ops : ops[j].kind # "restart" => ops'[j] = ops[j]
\* the step leaves alone every process that is not one of worker w, the
\* registry entries and flags of the other workers, the connection and
\* request-proxy processes, the ownership map and the correlation map
TouchesOnly(w) ==
    /\ \A p \in DOMAIN procs : procs[p].wid # w => procs'[p] = procs[p]
    /\ \A p \in DOMAIN procs' \ DOMAIN procs :
            procs'[p].role = "bot" /\ procs'[p].wid = w
    /\ \A v \in WorkerIds \ {w} : botChildren'[v] = botChildren[v]
    /\ expectedBotWorkerShutdowns' \ {w} = expectedBotWorkerShutdowns \ {w}
    /\ UNCHANGED << gatewayChild, restChild, shardOwner, shardInfoRequests >>

\* C14: restartShard(s) of an owned shard restarts the owner of s: the
\* owner's registered process is sent the shutdown message; and every step of
\* a restart of one worker touches that worker's processes only: the other
\* workers, the connection process, the request proxy, the ownership map and
\* the correlation map stay as they are.
C14_RestartTouchesOneWorker ==
    [][ /\ \A sh \in ClusterShards :
              (RestartShard(sh) /\ shardOwner[sh] # NoWorker) =>
                  /\ RestartStepOf(shardOwner[sh])
                  /\ TouchesOnly(shardOwner[sh])
                  /\ botChildren[shardOwner[sh]] # NoChild =>
                        ShutdownMsg \in SeqToSet(procs'[botChildren[shardOwner[sh]]].inbox)
        /\ \A w \in WorkerIds :
              (RestartStepOf(w) /\ OnlyRestartsMove) => TouchesOnly(w) ]_vars
\* a restart of one worker has completed, its old process is gone and a new
\* one runs, while the other worker still runs its first process, which was
\* never sent the shutdown message
C14_Witness ==
    \E i \in DOMAIN ops :
        /\ ops[i].kind = "restart" /\ ops[i].pc = "done" /\ ops[i].acted
        /\ \E p \in DOMAIN procs :
                procs[p].wid = ops[i].wid /\ procs[p].by = "restart"
                    /\ botChildren[ops[i].wid] = p
        /\ \E v \in WorkerIds \ {ops[i].wid} :
                /\ botChildren[v] # NoChild
                /\ procs[botChildren[v]].by = "init"
                /\ procs[botChildren[v]].st = "alive"
                /\ ShutdownMsg \notin SeqToSet(procs[botChildren[v]].inbox)

\* a step in which a lazy reload is called or resumes
LazyStep ==
    \E i \in DOMAIN ops' :
        /\ ops'[i].kind = "lazy"
        /\ i \in DOMAIN ops => ops'[i] # ops[i]
\* the processes of the given role
ProcsOf(ps, role) == { p \in DOMAIN ps : ps[p].role = role }

\* C15: no step of a lazy reload sends anything to the connection process or
\* the request proxy, kills them, forks a new one or changes which process
\* is registered as such; the ownership map is the same after as before.
C15_LazyKeepsConnectionAndProxy ==
    [][ LazyStep =>
          /\ UNCHANGED << gatewayChild, restChild, shardOwner >>
          /\ ProcsOf(procs', "gateway") = ProcsOf(procs, "gateway")
          /\ ProcsOf(procs', "rest") = ProcsOf(procs, "rest")
          /\ \A p \in ProcsOf(procs, "gateway") \cup ProcsOf(procs, "rest") :
                procs'[p] = procs[p] ]_vars
\* a lazy reload has restarted both workers and returned; the connection
\* process and the request proxy are those of the startup and were never
\* sent the shutdown message
C15_Witness ==
    /\ \E i \in DOMAIN ops :
            ops[i].kind = "lazy" /\ ops[i].pc = "done" /\ Len(ops[i].shut) = 2
    /\ \A p \in {gatewayChild, restChild} :
            /\ p # NoChild
            /\ procs[p].by = "init" /\ procs[p].st = "alive"
            /\ ShutdownMsg \notin SeqToSet(procs[p].inbox)
    /\ shardOwner = BuildShardOwner(plan)

\* C16: once a full reload has returned, pendingEvents holds no event of a
\* connection process older than the one it forked, and no worker forked by
\* a full reload is ever sent an event of a connection process that is older
\* than itself.
C16_FullReloadDiscardsOld ==
    /\ ( /\ (\E i \in DOMAIN ops : ops[i].kind = "full" /\ ops[i].acted)
          /\ (\A j \in DOMAIN ops : ops[j].kind = "full" => ops[j].pc = "done") )
        => \A k \in 1..Len(pendingEvents) : pendingEvents[k].src = gatewayChild
    /\ \A p \in DOMAIN procs :
            (procs[p].role = "bot" /\ procs[p].by = "full") =>
                \A k \in 1..Len(procs[p].inbox) :
                    procs[p].inbox[k].type = "event" => procs[p].inbox[k].src > p

\* C17: once stop() has returned, pendingEvents and shardInfoRequests are
\* empty.
C17_StopLeavesNothingPending ==
    \A i \in DOMAIN ops :
        (ops[i].kind = "stop" /\ ops[i].pc = "done" /\ ~ops[i].afterStop) =>
            pendingEvents = << >> /\ shardInfoRequests = {}

\* C18: killChild of a child that has already exited returns at once and
\* sends nothing: no call of the control API waits for the exit of a child
\* whose exit event has been dispatched (such a wait never ends), and a child
\* that has exited is sent nothing.
C18_KillChildEndsForExitedChild ==
    /\ \A i \in DOMAIN ops : \A p \in ops[i].wait : procs[p].st = "alive"
    /\ \A p \in DOMAIN procs : procs[p].st = "gone" => procs[p].inbox = << >>

\* C19: an exit of the connection process or of the request proxy that
\* nobody asked for, while the supervisor neither stops nor reloads, is
\* logged; these two processes are forked at startup and by fullReload only,
\* one of each at startup and one of each per full reload that got that far.
C19_ExitLoggedNotRespawned ==
    /\ \A p \in DOMAIN procs \ BotProcs :
            (procs[p].st = "gone" /\ procs[p].crashed /\ procs[p].idle) =>
                procs[p].dec = "logged"
    /\ \A p \in DOMAIN procs \ BotProcs : procs[p].by \in {"init", "full"}
    /\ \A role \in {"gateway", "rest"} :
            Cardinality(ProcsOf(procs, role)) =
                1 + Cardinality({ i \in DOMAIN ops :
                        ops[i].kind = "full" /\ ops[i].pc = "done" /\ ~ops[i].afterStop })

\* the inputs of the planner
PlanT == planner.lastShardId - planner.firstShardId + 1
PlanN == planner.workers
\* the number of workers of the result that list shard sh
Holders(out, sh) == Cardinality({ k \in 1..Len(out) : sh \in SeqToSet(out[k].shards) })

\* C20: for T >= 1 shards and N >= 1 workers the even split has N workers,
\* every shard of the range is listed by exactly one worker and once, no
\* other shard is listed, the first T mod N workers hold ceil(T/N) shards and
\* the others floor(T/N), and a second run gives the same result.
C20_EvenSplit ==
    planner.out # << >> =>
        /\ Len(planner.out) = PlanN
        /\ \A sh \in planner.firstShardId..planner.lastShardId :
                Holders(planner.out, sh) = 1
        /\ \A k \in 1..Len(planner.out) :
                /\ SeqToSet(planner.out[k].shards)
                        \subseteq planner.firstShardId..planner.lastShardId
                /\ Cardinality(SeqToSet(planner.out[k].shards)) = Len(planner.out[k].shards)
                /\ Len(planner.out[k].shards) =
                        IF k <= PlanT % PlanN THEN (PlanT + PlanN - 1) \div PlanN
                        ELSE PlanT \div PlanN
        /\ planner.again # << >> => planner.again = planner.out
\* the planner has run twice on a range that does not divide evenly, with
\* more than one shard for some worker
C20_Witness ==
    /\ planner.out # << >> /\ planner.again # << >>
    /\ PlanT % PlanN # 0
    /\ PlanT > PlanN
    /\ planner.firstShardId > 0

\* C21: in the even split every worker's shard list goes up in steps of one,
\* and every shard of a worker is smaller than every shard of each later
\* worker, whatever the first shard id of the cluster is.
C21_EvenSplitContiguousAscending ==
    planner.out # << >> =>
        /\ \A k \in 1..Len(planner.out) :
                \A j \in 1..(Len(planner.out[k].shards) - 1) :
                    planner.out[k].shards[j + 1] = planner.out[k].shards[j] + 1
        /\ \A k \in 1..Len(planner.out), m \in 1..Len(planner.out) :
                k < m =>
                    \A a \in SeqToSet(planner.out[k].shards),
                       b \in SeqToSet(planner.out[m].shards) : a < b
\* the planner has split a range that starts above 0 over at least two
\* workers that hold at least two shards each
C21_Witness ==
    /\ planner.out # << >>
    /\ planner.firstShardId > 0
    /\ PlanN >= 2
    /\ \A k \in 1..Len(planner.out) : Len(planner.out[k].shards) >= 2

\* the configuration holds a reversed range: the cluster's last shard id is
\* smaller than its first, or some worker of the explicit list in use has a
\* range { start, end } with end < start
ReversedRange(cfg) ==
    \/ cfg.lastShardId < cfg.firstShardId
    \/ /\ cfg.mode = "list"
       /\ \E k \in 1..Len(cfg.list) :
            ~cfg.list[k].shards.array /\ cfg.list[k].shards.end < cfg.list[k].shards.start

\* C22: with a reversed range in the configuration the planner returns no
\* plan, not even an empty or a partial one: when it runs it fails with a
\* configuration error, and no process is ever forked.
C22_ReversedRangeFails ==
    [][ ReversedRange(planner) =>
            /\ planner'.out = << >>
            /\ procs' = << >>
            /\ planner' # planner => planner'.err ]_vars
\* the planner has failed on a list whose first worker is valid and whose
\* second worker has a reversed range, in a cluster with a valid range
C22_Witness ==
    /\ planner.err
    /\ planner.mode = "list" /\ Len(planner.list) = 2
    /\ ~expandShardRange(planner.list[1].shards).err
    /\ ~planner.list[2].shards.array
    /\ planner.list[2].shards.end < planner.list[2].shards.start
    /\ planner.lastShardId >= planner.firstShardId
    /\ procs = << >>

\* the explicit list in use names a negative shard id, in an array or as the
\* start of a range
HoldsNegative(cfg) ==
    \E k \in 1..Len(cfg.list) :
        \/ cfg.list[k].shards.array
                /\ \E j \in 1..Len(cfg.list[k].shards.items) : cfg.list[k].shards.items[j] < 0
        \/ ~cfg.list[k].shards.array /\ cfg.list[k].shards.start < 0

\* C23: the plan made from an explicit worker list has, for every worker, a
\* shard list of non-negative ids in strictly ascending order, and a list
\* that names a negative shard id yields no plan.
C23_ExplicitShardsNormalized ==
    (planner.mode = "list" /\ Len(planner.list) > 0) =>
        /\ \A k \in 1..Len(planner.out) :
                /\ \A j \in 1..Len(planner.out[k].shards) : planner.out[k].shards[j] >= 0
                /\ \A j \in 1..(Len(planner.out[k].shards) - 1) :
                        planner.out[k].shards[j] < planner.out[k].shards[j + 1]
        /\ HoldsNegative(planner) => planner.out = << >>

\* C24: every plan that the planner returns covers the cluster's range
\* firstShardId..lastShardId exactly: each shard of the range is listed by
\* exactly one worker and no worker lists a shard outside the range.
C24_PlanCoversRangeOnce ==
    planner.out # << >> =>
        /\ \A sh \in planner.firstShardId..planner.lastShardId :
                Holders(planner.out, sh) = 1
        /\ \A k \in 1..Len(planner.out) :
                SeqToSet(planner.out[k].shards)
                    \subseteq planner.firstShardId..planner.lastShardId

\* C25: a worker list in which two workers have the same id yields no plan
\* and no process is forked, so the worker ids of the plan the supervisor
\* runs with are pairwise different.
C25_DuplicateIdsRejected ==
    /\ ( /\ planner.mode = "list"
          /\ \E k \in 1..Len(planner.list), m \in 1..Len(planner.list) :
                k # m /\ planner.list[k].id = planner.list[m].id )
        => planner.out = << >> /\ procs = << >>
    /\ \A k \in 1..Len(plan), m \in 1..Len(plan) : k # m => plan[k].id # plan[m].id

\* the deployment has a single cluster: one cluster is configured, or none
\* (no cluster list, or an empty one), so that the default cluster is used
SingleCluster(cfg) == ~cfg.clustersSet \/ cfg.clusters <= 1

\* C26: with "auto" on a valid range, a single-cluster deployment gets one
\* worker per shard of the range, in order, each owning exactly its shard,
\* with pairwise different ids, and never a configuration error; with more
\* than one configured cluster the planner returns no plan.
C26_AutoOneWorkerPerShard ==
    (planner.mode = "auto" /\ planner.firstShardId <= planner.lastShardId) =>
        /\ SingleCluster(planner) =>
                /\ ~planner.err
                /\ planner.out # << >> =>
                    /\ Len(planner.out) = planner.lastShardId - planner.firstShardId + 1
                    /\ \A k \in 1..Len(planner.out) :
                            planner.out[k].shards = << planner.firstShardId + (k - 1) >>
                    /\ \A k \in 1..Len(planner.out), m \in 1..Len(planner.out) :
                            k # m => planner.out[k].id # planner.out[m].id
        /\ ~SingleCluster(planner) => planner.out = << >>

\* an event of a shard that no worker of the plan owns
Unowned(e) == e.type = "event" /\ shardOwner[e.shardId] = NoWorker
\* a step in which a call of the given kind is made or resumes
StepOf(kind) ==
    \E i \in DOMAIN ops' :
        ops'[i].kind = kind /\ (i \in DOMAIN ops => ops'[i] # ops[i])

\* C27: an event of an unowned shard is appended to pendingEvents and sent
\* to nobody; no worker is ever sent such an event; and an event of an
\* unowned shard that is queued stays queued in every step that is not a
\* step of fullReload or of stop (readiness flushes included).
C27_UnownedEventStaysQueued ==
    [][ /\ \A g \in DOMAIN procs, sh \in ClusterShards :
              (GatewayEvent(g, sh) /\ shardOwner[sh] = NoWorker) =>
                  /\ pendingEvents' = Append(pendingEvents, EventMsg(evCount + 1, sh, g))
                  /\ procs' = procs
        /\ \A p \in DOMAIN procs' : \A k \in 1..Len(procs'[p].inbox) :
              ~Unowned(procs'[p].inbox[k])
        /\ \A k \in 1..Len(pendingEvents) :
              Unowned(pendingEvents[k]) =>
                  \/ pendingEvents[k] \in SeqToSet(pendingEvents')
                  \/ StepOf("full")
                  \/ StepOf("stop") ]_vars
\* an event of an unowned shard is still queued after a restarted worker
\* announced readiness and was handed a later event that had been queued
C27_Witness ==
    \E w \in WorkerIds, k \in 1..Len(pendingEvents) :
        /\ Unowned(pendingEvents[k])
        /\ restartWin[w].phase = "closed"
        /\ \E j \in 1..Len(procs[restartWin[w].pid].inbox) :
                /\ procs[restartWin[w].pid].inbox[j].type = "event"
                /\ procs[restartWin[w].pid].inbox[j].id > pendingEvents[k].id

\* the events of q whose shard worker w owns (others: does not own), in the
\* order of q
EventsOwnedBy(q, w) == SelectSeq(q, LAMBDA e : shardOwner[e.shardId] = w)
EventsOfOthers(q, w) == SelectSeq(q, LAMBDA e : shardOwner[e.shardId] # w)

\* C28: in the step in which a process of worker W announces readiness, the
\* registered process of W is sent exactly the queued events whose shard W
\* owns, in queue order and after what it was sent before; the queue then
\* holds exactly the other events in their order; no other process is sent
\* anything.
C28_FlushSendsOwnedKeepsRest ==
    [][ \A p \in DOMAIN procs :
          (procs[p].role = "bot" /\ procs[p].ann = "no" /\ procs'[p].ann = "seen") =>
            LET w == procs[p].wid
                c == botChildren[w]
            IN  /\ c # NoChild =>
                      /\ procs'[c].inbox =
                            procs[c].inbox \o EventsOwnedBy(pendingEvents, w)
                      /\ pendingEvents' = EventsOfOthers(pendingEvents, w)
                /\ c = NoChild => pendingEvents' = pendingEvents
                /\ \A q \in DOMAIN procs \ {c} : procs'[q].inbox = procs[q].inbox ]_vars
\* a worker forked by a full reload has announced readiness and holds an
\* event that had been queued before it was forked, while an event of
\* another worker is still queued
C28_Witness ==
    \E p \in BotProcs :
        /\ procs[p].by = "full" /\ procs[p].ann = "seen"
        /\ \E j \in 1..Len(procs[p].inbox) :
                procs[p].inbox[j].type = "event" /\ procs[p].inbox[j].src < p
        /\ \E k \in 1..Len(pendingEvents) :
                shardOwner[pendingEvents[k].shardId] \in WorkerIds \ {procs[p].wid}

\* C29: a getCounts call returns at once, without waiting for a child, the
\* number of shards of the cluster's range, the number of workers of the plan
\* and the cluster count of the configuration, whatever the children do; it
\* changes nothing of the supervisor's state and moves no other call.
C29_GetCountsPureRead ==
    [][ ( Len(ops') = Len(ops) + 1 /\ ops'[Len(ops')].kind = "counts" ) =>
          /\ ops'[Len(ops')].ret =
                << Cardinality(ClusterShards), Cardinality(PlanIdx),
                   IF planner.clustersSet THEN planner.clusters ELSE 1 >>
          /\ ops'[Len(ops')].pc = "done"
          /\ ops'[Len(ops')].wait = {}
          /\ SubSeq(ops', 1, Len(ops)) = ops
          /\ UNCHANGED << plan, shardOwner, botChildren, expectedBotWorkerShutdowns,
                          shardInfoRequests, pendingEvents, restChild, gatewayChild,
                          stopped, reloading, procs, timers, waitq >> ]_vars
\* getCounts was called after stop(), with no worker process registered any
\* more, and it returned
C29_Witness ==
    \E i \in DOMAIN ops :
        /\ ops[i].kind = "counts" /\ ops[i].pc = "done" /\ ops[i].ret # << >>
        /\ ops[i].afterStop
        /\ \A w \in WorkerIds : botChildren[w] = NoChild

\* a request has just been answered
Answered == http'.handled = http.handled + 1
\* the answer to the request that was answered last
LastAnswer == http.last[1]

\* C30: the request proxy executes the API call only for a request whose
\* authorization header is exactly the secret of the run; a request with a
\* missing or a different credential is answered 401 and no API call is
\* executed for it.
C30_OnlyTheSecretReachesTheApi ==
    [][Answered =>
        LET r == http'.last[1]
            exact == r.auth.present /\ r.auth.value = http.authorization
        IN  /\ http'.authorization = http.authorization
            /\ r.called => exact
            /\ http'.apiCalls > http.apiCalls => exact
            /\ ~exact => /\ r.status = 401
                         /\ ~r.called
                         /\ http'.apiCalls = http.apiCalls]_vars

\* one request with the secret reached the API, and the next one, whose
\* credential carries the secret behind a prefix, was answered 401
C30_Witness ==
    /\ http.handled = 2
    /\ http.apiCalls = 1
    /\ LastAnswer.auth = Header("Bearer s1")
    /\ http.authorization = "s1"
    /\ LastAnswer.status = 401

\* the message the front-end receives in this step, if it receives one
Received == IF cli.inbox # << >> /\ cli'.inbox = Tail(cli.inbox)
            THEN << Head(cli.inbox) >> ELSE << >>

\* C31: a control action sent with request id r resolves exactly once: as
\* success only on an ok or count-result reply carrying r, as an error only
\* on an error reply carrying r, or as a timeout when no reply carrying r
\* came in time; a reply with another request id never resolves it, a reply
\* for r after it has resolved changes nothing, and it does resolve.
C31_ActionResolvesOnce ==
    /\ [][\A r \in DOMAIN cli.requests :
            LET q == cli.requests[r]
                q2 == cli'.requests[r]
            IN  /\ q.state # "pending" => q2.state = q.state
                /\ q.state = "pending" /\ q2.state = "success" =>
                        /\ Received # << >>
                        /\ Received[1].type \in {"snowcord:action:ok",
                                                 "snowcord:count:result"}
                        /\ Received[1].requestId = r
                /\ q.state = "pending" /\ q2.state = "error" =>
                        /\ Received # << >>
                        /\ Received[1].type = "snowcord:action:error"
                        /\ Received[1].requestId = r
                /\ q.state = "pending" /\ q2.state = "timeout" => Received = << >>
                /\ q.state = "pending" /\ Received # << >> /\ Received[1].requestId # r =>
                        q2.state = "pending"]_vars
    /\ \A r \in 1..MaxActions :
            (r \in DOMAIN cli.requests) ~>
                (/\ r \in DOMAIN cli.requests
                 /\ cli.requests[r].state # "pending"
                 /\ ~cli.requests[r].listening
                 /\ ~cli.requests[r].timeout)

\* a count action resolved on its count result while another action was
\* pending, and the ok reply that followed it found no listener
C31_Witness ==
    /\ Len(cli.requests) = 2
    /\ cli.requests[1].type = "snowcord:count"
    /\ cli.requests[1].state = "success"
    /\ cli.requests[1].late = 1
    /\ cli.requests[2].state = "pending"
    /\ 2 \in cli.running

\* the reloads that have started and not returned
ReloadsInProgress(os) ==
    { i \in DOMAIN os : os[i].kind \in ReloadKinds /\ os[i].pc # "done" }

\* C32: every reload, reloadLazy or fullReload that starts while the
\* supervisor is not stopped completes, and when one completes with no other
\* reload in progress the reloading flag is false.
C32_ReloadCompletesToIdle ==
    /\ [][\A i \in DOMAIN ops :
            /\ i \in ReloadsInProgress(ops)
            /\ ReloadsInProgress(ops') = {}
            => ~reloading']_vars
    /\ \A i \in 1..MaxReloadInputs :
            (i \in DOMAIN ops /\ ops[i].kind \in ReloadKinds /\ ~ops[i].afterStop)
                ~> (i \in DOMAIN ops /\ ops[i].pc = "done")

\* the processes of a role (and worker id) whose exit the supervisor has not
\* seen and which it has not sent SIGKILL
Live(role, w) ==
    { p \in DOMAIN procs : /\ procs[p].role = role
                            /\ procs[p].wid = w
                            /\ procs[p].st = "alive"
                            /\ ~procs[p].killed }

\* C33: under any interleaving of restarts, reloads, respawn timers and exit
\* events there is at most one live process per worker id, at most one live
\* connection process and at most one live request proxy, and the registry
\* entry of a worker id is the live process of that id.
C33_OneLiveProcessPerRole ==
    /\ \A w \in WorkerIds :
        /\ Cardinality(Live("bot", w)) <= 1
        /\ botChildren[w] # NoChild =>
                /\ procs[botChildren[w]].st = "alive"
                /\ procs[botChildren[w]].wid = w
        /\ \A p \in Live("bot", w) : botChildren[w] = p
    /\ Cardinality(Live("gateway", NoWorker)) <= 1
    /\ Cardinality(Live("rest", NoWorker)) <= 1

\* stop() has returned
StopCompleted == \E i \in DOMAIN ops : ops[i].kind = "stop" /\ ops[i].pc = "done"

\* C34: after stop() has completed no child process is alive (a process that
\* was sent SIGKILL counts as ended) and none is forked, also when stop() found a restartWorker, reload, reloadLazy or
\* fullReload suspended at one of its waits.
C34_NothingAliveAfterStop ==
    [][StopCompleted' =>
        /\ \A p \in DOMAIN procs' : procs'[p].st # "alive" \/ procs'[p].killed
        /\ StopCompleted => Len(procs') = Len(procs)]_vars

\* no call of the control API is between its start and its return
NoCallInProgress == \A i \in DOMAIN ops : ops[i].pc \in {"done", "rejected"}

\* C35: a worker is flagged as expected to shut down only while a stop of
\* its process that the supervisor asked for is in progress: once the
\* restarts and reloads have completed no worker id is flagged, also when a
\* worker had no process at the start of the call.
C35_NoFlagOutlivesItsCall ==
    NoCallInProgress => expectedBotWorkerShutdowns = {}

\* C36: while stop() is never called every configured worker has a live
\* process again after any finite sequence of crashes and reloads, also a
\* worker that exits unexpectedly while a reload is in progress.
C36_WorkersComeBack ==
    \A k \in 1..Len(EvenPlan) :
        (Live("bot", EvenPlan[k].id) = {}) ~> (Live("bot", EvenPlan[k].id) # {})

\* env.worker.shards of worker process p, as a set (shardSet of botProcess)
shardSet(p) == SeqToSet(plan[procs[p].cfg].shards)

\* botProcess, process.on("message"): the worker process p dispatches m
WorkerDispatches(p, m) == m.type = "event" /\ m.shardId \in shardSet(p)

\* C37: the ownership map never changes after startup; every event the
\* supervisor sends to a worker process, directly or by a flush, carries a
\* shard id of the shard list that process was configured with; a worker
\* process dispatches no event of a shard outside its list.
C37_EventsReachTheirOwner ==
    /\ [][procs # << >> => shardOwner' = shardOwner]_vars
    /\ [](\A p \in BotProcs : \A k \in 1..Len(procs[p].inbox) :
            LET m == procs[p].inbox[k] IN
            /\ m.type = "event" => m.shardId \in shardSet(p)
            /\ WorkerDispatches(p, m) => m.shardId \in shardSet(p))

\* ---------------------------------------------------------------------------
\* reload(), the hot reload of dev mode, with events and shard-info requests
\* arriving around it
\* ---------------------------------------------------------------------------
\* one call of reload(): overlapping calls are the subject of SpecRegistry
NextHot ==
    \/ \E p \in DOMAIN procs : ExitEvent(p)
    \/ \E p \in DOMAIN procs : KillTimeout(p)
    \/ \E i \in DOMAIN ops : SyncDone(i)
    \/ \E p \in DOMAIN procs : BotReady(p)
    \/ evCount < MaxHotEvents /\ \E g \in DOMAIN procs, sh \in ClusterShards : GatewayEvent(g, sh)
    \/ Len(calls) < MaxHotInfo /\ \E p \in BotProcs : GetShardInfo(p)
    \/ ops = << >> /\ Call("reload")

SpecHot == InitLife /\ [][NextHot]_vars

\* reload() is called in the step
ReloadCalled == Len(ops') > Len(ops) /\ ops'[Len(ops')].kind = "reload"
\* a reload passes its loop over runtime.cluster.botWorkers in the step
ReloadSpawns ==
    \E i \in DOMAIN ops' :
        /\ ops'[i].kind = "reload"
        /\ ops'[i].pc \in {"sync", "done"}
        /\ i \in DOMAIN ops => ops[i].pc = "kill"

DevStep(d) ==
    /\ dev' = d
    /\ UNCHANGED << supervisorVars, cli, registry >>

\* fs.watch callback for a file that is not ignored: the debounce timer is
\* set anew; full: the file is one of CONFIG_FILE_PATHS
FileChange(full) ==
    DevStep([dev EXCEPT !.timer = [armed |-> TRUE, force |-> full],
                        !.inputs = @ + 1])

\* the 250ms debounce timer: void restart(forceFullRestart)
DebounceTimer ==
    /\ dev.timer.armed
    /\ DevStep(restart([dev EXCEPT !.timer.armed = FALSE], dev.timer.force))

\* "update:full" or "restart:cluster" typed at the terminal: restart(true)
TerminalRestart ==
    DevStep(restart([dev EXCEPT !.inputs = @ + 1], TRUE))

\* loadEnvFile of restart number i has settled
EnvLoaded(i) ==
    /\ dev.runs[i].pc = "env"
    /\ DevStep(DevAfterEnv(dev, i))

\* buildSnowcordProject of restart number i has settled; ok: it did not throw
BuildDone(i, ok) ==
    /\ dev.runs[i].pc = "build"
    /\ DevStep(IF ok THEN DevAfterBuild(dev, i) ELSE DevFinally(dev, i))

\* requestRuntimeAction of restart number i has resolved or rejected
ReloadSettles(i) ==
    /\ dev.runs[i].pc = "reload"
    /\ DevStep(DevFinally(dev, i))

\* killChild's 5s timer: child.kill() of a runtime that has not exited
DevKillTimeout ==
    /\ dev.activeChild.st = "running"
    /\ dev.activeChild.shutdown
    /\ ~dev.activeChild.killed
    /\ DevStep([dev EXCEPT !.activeChild.killed = TRUE])

\* the runtime exits after the shutdown message (exit code 0) or after
\* child.kill() (no exit code)
RuntimeExits ==
    /\ dev.activeChild.st = "running"
    /\ dev.activeChild.shutdown \/ dev.activeChild.killed
    /\ DevStep(DevWake([dev EXCEPT !.activeChild.st = "gone",
                                   !.activeChild.exitCode = ~dev.activeChild.killed], 1))

\* the runtime exits by itself with an exit code
RuntimeCrash ==
    /\ dev.activeChild.st = "running"
    /\ DevStep(DevWake([dev EXCEPT !.activeChild.st = "gone",
                                   !.activeChild.exitCode = TRUE,
                                   !.inputs = @ + 1], 1))

\* the runtime is ended by a signal the front-end did not send
RuntimeCrashBySignal ==
    /\ dev.activeChild.st = "running"
    /\ DevStep(DevWake([dev EXCEPT !.activeChild.st = "gone",
                                   !.inputs = @ + 1], 1))

\* runDev has awaited its first restart(): the runtime runs
DevStarted ==
    [NoDev EXCEPT !.activeChild = NewRuntime, !.activeEntryPoint = EntryPoint,
                  !.runs = << [NewRun(FALSE, FALSE, << >>) EXCEPT !.pc = "done"] >>]

InitDev ==
    /\ InitSupervisor({EvenPlan})
    /\ planner = NoPlanner /\ http = NoHttp
    /\ cli = NoCli /\ registry = NoRegistry
    /\ dev = DevStarted

NextDev ==
    \/ DebounceTimer
    \/ \E i \in DOMAIN dev.runs : EnvLoaded(i)
    \/ \E i \in DOMAIN dev.runs : BuildDone(i, TRUE)
    \/ \E i \in DOMAIN dev.runs : BuildDone(i, FALSE)
    \/ \E i \in DOMAIN dev.runs : ReloadSettles(i)
    \/ DevKillTimeout
    \/ RuntimeExits
    \/ dev.inputs < MaxDevInputs /\ FileChange(TRUE)
    \/ dev.inputs < MaxDevInputs /\ FileChange(FALSE)
    \/ dev.inputs < MaxDevInputs /\ TerminalRestart
    \/ dev.inputs < MaxDevInputs /\ RuntimeCrash
    \/ dev.inputs < MaxDevInputs /\ RuntimeCrashBySignal

\* every await of restart() settles, the debounce timer fires, a runtime that
\* was told to stop exits
FairDev ==
    /\ WF_vars(DebounceTimer)
    /\ WF_vars(\E i \in DOMAIN dev.runs : EnvLoaded(i))
    /\ WF_vars(\E i \in DOMAIN dev.runs : BuildDone(i, TRUE))
    /\ WF_vars(\E i \in DOMAIN dev.runs : ReloadSettles(i))
    /\ WF_vars(RuntimeExits)

SpecDev == InitDev /\ [][NextDev]_vars /\ FairDev

\* the restarts that run
ActiveRuns == { i \in DOMAIN dev.runs : dev.runs[i].pc # "done" }
\* restart() is called in the step (by the debounce timer or the terminal)
RestartRequested == DebounceTimer \/ TerminalRestart
\* a restart reaches the end of its finally block in the step
RunFinishes ==
    \E i \in DOMAIN dev.runs : dev.runs[i].pc # "done" /\ dev'.runs[i].pc = "done"
AnyFull(q) == \E k \in 1..Len(q) : q[k]

\* at most one restart runs; a call of restart() that finds one running
\* starts nothing; when a restart finishes, exactly one follow-up starts if
\* calls were absorbed, with forceFullRestart true exactly if one of them
\* asked for it, and none starts otherwise
DevCoalesces ==
    /\ [](Cardinality(ActiveRuns) <= 1)
    /\ [][ /\ (RestartRequested /\ dev.restarting) =>
                /\ dev'.runs = dev.runs
                /\ dev'.absorbed # dev.absorbed
           /\ RunFinishes =>
                IF dev.absorbed # << >>
                THEN /\ Len(dev'.runs) = Len(dev.runs) + 1
                     /\ dev'.runs[Len(dev'.runs)].pc # "done"
                     /\ dev'.runs[Len(dev'.runs)].forceFullRestart = AnyFull(dev.absorbed)
                     /\ dev'.absorbed = << >>
                ELSE Len(dev'.runs) = Len(dev.runs) ]_vars

\* C39: in dev mode at most one restart runs at a time; calls that arrive
\* while one runs start nothing and are coalesced into exactly one follow-up,
\* full exactly if one of them asked for a full restart; and no call is
\* lost: calls that were absorbed are eventually served by a follow-up.
C39_RestartsCoalesce ==
    /\ DevCoalesces
    /\ (dev.absorbed # << >>) ~> (dev.absorbed = << >>)

\* ---------------------------------------------------------------------------
\* the executor registries of the interaction layer
\* ---------------------------------------------------------------------------
RegisterComponentExecutor(customId) ==
    /\ registry' = registerComponentExecutor(registry, customId)
    /\ UNCHANGED << supervisorVars, cli, dev >>

RegisterModalExecutor(customId) ==
    /\ registry' = registerModalExecutor(registry, customId)
    /\ UNCHANGED << supervisorVars, cli, dev >>

RegisterRef(customId) ==
    /\ registry' = registerRef(registry, customId)
    /\ UNCHANGED << supervisorVars, cli, dev >>

\* clearInteractionExecutors()
ClearInteractionExecutors ==
    /\ registry' = NoRegistry
    /\ UNCHANGED << supervisorVars, cli, dev >>

InitExecutors ==
    /\ InitSupervisor({EvenPlan})
    /\ planner = NoPlanner /\ http = NoHttp
    /\ cli = NoCli /\ dev = NoDev
    /\ registry = NoRegistry

NextExecutors ==
    \/ \E customId \in CustomIds : RegisterComponentExecutor(customId)
    \/ \E customId \in CustomIds : RegisterModalExecutor(customId)
    \/ \E customId \in CustomIds : RegisterRef(customId)
    \/ ClearInteractionExecutors

SpecExecutors == InitExecutors /\ [][NextExecutors]_vars

\* the last n elements of q (all of q when it is shorter)
LastN(q, n) == IF Len(q) <= n THEN q ELSE SubSeq(q, Len(q) - n + 1, Len(q))

\* C40: after any sequence of register calls each registry holds at most
\* REGISTRY_LIMIT entries, and they are the most recently registered ids in
\* the order of their last registration: a registration beyond the limit
\* evicts the least recently registered id, a re-registration moves the id
\* to the most recent place.
C40_RegistriesKeepTheMostRecent ==
    /\ Len(registry.componentExecutors) <= REGISTRY_LIMIT
    /\ Len(registry.modalExecutors) <= REGISTRY_LIMIT
    /\ registry.componentExecutors = LastN(registry.componentRecent, REGISTRY_LIMIT)
    /\ registry.modalExecutors = LastN(registry.modalRecent, REGISTRY_LIMIT)

====
